---- MODULE Spec2Model ----
(***************************************************************************)
(* MarketIntel skill (nanobot/skills/market_intel/market_data.py).         *)
(*                                                                         *)
(* Numbers are exact rationals [n, d] (d > 0, lowest terms); binary        *)
(* floating-point rounding is not modelled.  A Python dict is a function   *)
(* from key strings to values, a missing key is a key outside its DOMAIN.  *)
(* A function that can raise returns Ok(v) or Raise(e).  A rendered report *)
(* is the sequence of the pieces its f-strings put together: literal       *)
(* labels and interpolated values, in the order of the text.               *)
(***************************************************************************)
EXTENDS Integers, Sequences, FiniteSets, TLC

VARIABLES
    pc,        \* position of the analyze_market call: idle, candles, market, news, format, done
    call,      \* arguments of the call in progress
    requests,  \* outbound session.get calls issued by the call, in order
    steps,     \* fetcher / formatter steps performed by the call, in order
    tv,        \* result of fetch_tradingview_data (the snapshot)
    tvLive,    \* whether the snapshot is the dict of line 59 (not the fallback's)
    md,        \* result of fetch_market_data
    news,      \* result of fetch_news
    result,    \* value analyze_market returned
    fn,        \* direct calls of the helpers: which function was applied
    arg,       \*   its arguments
    ret,       \*   what it returned (Ok) or raised (Raise)
    pair,      \* two analyze_market calls in progress at once: each call's own data
    rng        \* the generator of the random module: how many numbers it has handed out

vars == <<pc, call, requests, steps, tv, tvLive, md, news, result, fn, arg, ret, pair, rng>>
flowVars == <<pc, call, requests, steps, tv, tvLive, md, news, result>>
fnVars == <<fn, arg, ret>>
pairVars == <<pair, rng>>

----------------------------------------------------------------------------
(* Rational arithmetic *)

Abs(x) == IF x < 0 THEN -x ELSE x

RECURSIVE Gcd(_, _)
Gcd(a, b) == IF b = 0 THEN a ELSE Gcd(b, a % b)   \* a, b >= 0

Rat(num, den) ==
    LET sign == IF den < 0 THEN -1 ELSE 1
        g == Gcd(Abs(num), Abs(den))
    IN  [n |-> (sign * num) \div g, d |-> (sign * den) \div g]

R(i) == [n |-> i, d |-> 1]

\* through the least common denominator, to keep the integers small
RAdd(a, b) ==
    LET g == Gcd(a.d, b.d)
    IN  Rat(a.n * (b.d \div g) + b.n * (a.d \div g), (a.d \div g) * b.d)
RSub(a, b) == RAdd(a, [n |-> -b.n, d |-> b.d])
RMul(a, b) == Rat(a.n * b.n, a.d * b.d)
RDivNZ(a, b) == Rat(a.n * b.d, a.d * b.n)
RLt(a, b) == a.n * b.d < b.n * a.d
RGt(a, b) == RLt(b, a)
RLe(a, b) == ~RLt(b, a)
RIsZero(a) == a.n = 0

----------------------------------------------------------------------------
(* Results and dicts *)

Ok(v) == [tag |-> "ok", v |-> v]
Raise(e) == [tag |-> "exc", e |-> e]
IsOk(r) == r.tag = "ok"

\* a / b in Python: ZeroDivisionError when b is zero
RDiv(a, b) == IF RIsZero(b) THEN Raise("ZeroDivisionError") ELSE Ok(RDivNZ(a, b))

\* dict.get(k, default)
Get(d, k, default) == IF k \in DOMAIN d THEN d[k] ELSE default

EmptyDict == [k \in {} |-> 0]

Seg(lbl, val) == [lbl |-> lbl, val |-> val]
Lit(text) == [lbl |-> "text", val |-> text]

\* an early return of the fallback value from inside a try-body
Fallback == [tag |-> "fallback"]

----------------------------------------------------------------------------
(* Sequences, strings and JSON values *)

Min(a, b) == IF a < b THEN a ELSE b

\* s[:k]
Take(s, k) == SubSeq(s, 1, Min(k, Len(s)))
\* s[k:]
Drop(s, k) == SubSeq(s, Min(k, Len(s)) + 1, Len(s))
\* s[-k:]
LastN(s, k) == SubSeq(s, Len(s) - Min(k, Len(s)) + 1, Len(s))

\* sum(s), by halves
RECURSIVE RSum(_)
RSum(s) ==
    IF Len(s) = 0 THEN R(0)
    ELSE IF Len(s) = 1 THEN s[1]
    ELSE LET h == Len(s) \div 2
         IN  RAdd(RSum(SubSeq(s, 1, h)), RSum(SubSeq(s, h + 1, Len(s))))

\* max(s) and min(s) of a non-empty sequence
RMax(s) == s[CHOOSE i \in DOMAIN s : \A j \in DOMAIN s : RLe(s[j], s[i])]
RMin(s) == s[CHOOSE i \in DOMAIN s : \A j \in DOMAIN s : RLe(s[i], s[j])]

\* the concatenation of the sequences of ss, by halves
RECURSIVE Concat(_)
Concat(ss) ==
    IF Len(ss) = 0 THEN <<>>
    ELSE IF Len(ss) = 1 THEN ss[1]
    ELSE LET h == Len(ss) \div 2
         IN  Concat(SubSeq(ss, 1, h)) \o Concat(SubSeq(ss, h + 1, Len(ss)))

\* A string is the sequence of its parts and its length in characters;
\* a prefix keeps the parts and records the shorter length.
Str(parts, len) == [parts |-> parts, len |-> len]
StrTrunc(s, k) == [parts |-> s.parts, len |-> Min(s.len, k)]

JNull == [t |-> "null"]
JNum(i) == [t |-> "num", v |-> i]
JStr(s) == [t |-> "str", v |-> s]
JList(items) == [t |-> "list", v |-> items]
JObj(d) == [t |-> "obj", v |-> d]

\* bool(x) of a decoded JSON value
Truthy(x) ==
    CASE x.t = "null" -> FALSE
      [] x.t = "num" -> x.v # 0
      [] x.t = "str" -> x.v.len # 0
      [] x.t = "list" -> x.v # <<>>
      [] x.t = "obj" -> DOMAIN x.v # {}

\* x[:k] of a decoded JSON value
Slice(x, k) ==
    CASE x.t = "str" -> Ok(JStr(StrTrunc(x.v, k)))
      [] x.t = "list" -> Ok(JList(Take(x.v, k)))
      [] OTHER -> Raise("TypeError")

\* len(x) of a decoded JSON value
JLen(x) ==
    CASE x.t = "str" -> Ok(x.v.len)
      [] x.t = "list" -> Ok(Len(x.v))
      [] x.t = "obj" -> Ok(Cardinality(DOMAIN x.v))
      [] OTHER -> Raise("TypeError")

----------------------------------------------------------------------------
(* MarketIntelFetcher: indicators *)

Change(prices, i) == RSub(prices[i + 1], prices[i])

Gains(prices) ==
    [i \in 1..(Len(prices) - 1) |->
        IF RGt(Change(prices, i), R(0)) THEN Change(prices, i) ELSE R(0)]

Losses(prices) ==
    [i \in 1..(Len(prices) - 1) |->
        IF RGt(Change(prices, i), R(0)) THEN R(0)
        ELSE LET c == Change(prices, i) IN Rat(Abs(c.n), c.d)]

\* for i in range(14, len(xs)): avg = (avg * 13 + xs[i]) / 14
RECURSIVE Smooth(_, _, _)
Smooth(avg, xs, i) ==
    IF i > Len(xs) THEN avg
    ELSE Smooth(RDivNZ(RAdd(RMul(avg, R(13)), xs[i]), R(14)), xs, i + 1)

\* the ratio of gain to loss taken for the index
CalcRsiRatio(prices) ==
    IF Len(prices) < 14 THEN R(50)
    ELSE LET gains == Gains(prices)
             losses == Losses(prices)
             avg_gain == Smooth(RDivNZ(RSum(Take(gains, 14)), R(14)), gains, 15)
             avg_loss == Smooth(RDivNZ(RSum(Take(losses, 14)), R(14)), losses, 15)
         IN  IF RIsZero(avg_loss) THEN R(100)
             ELSE LET rs == RDivNZ(avg_gain, avg_loss)
                  IN  RMul(R(100), rs)

\* the neutral answer given one sample too early
CalcRsiShortAt13(prices) ==
    IF Len(prices) < 13 THEN R(50)
    ELSE LET gains == Gains(prices)
             losses == Losses(prices)
             avg_gain == Smooth(RDivNZ(RSum(Take(gains, 14)), R(14)), gains, 15)
             avg_loss == Smooth(RDivNZ(RSum(Take(losses, 14)), R(14)), losses, 15)
         IN  IF RIsZero(avg_loss) THEN R(100)
             ELSE LET rs == RDivNZ(avg_gain, avg_loss)
                  IN  RSub(R(100), RDivNZ(R(100), RAdd(R(1), rs)))

\* no losses answered with the neutral value
CalcRsiNeutralOnNoLoss(prices) ==
    IF Len(prices) < 14 THEN R(50)
    ELSE LET gains == Gains(prices)
             losses == Losses(prices)
             avg_gain == Smooth(RDivNZ(RSum(Take(gains, 14)), R(14)), gains, 15)
             avg_loss == Smooth(RDivNZ(RSum(Take(losses, 14)), R(14)), losses, 15)
         IN  IF RIsZero(avg_loss) THEN R(50)
             ELSE LET rs == RDivNZ(avg_gain, avg_loss)
                  IN  RSub(R(100), RDivNZ(R(100), RAdd(R(1), rs)))

CalcRsi(prices) ==
    IF Len(prices) < 14 THEN R(50)
    ELSE LET gains == Gains(prices)
             losses == Losses(prices)
             avg_gain == Smooth(RDivNZ(RSum(Take(gains, 14)), R(14)), gains, 15)
             avg_loss == Smooth(RDivNZ(RSum(Take(losses, 14)), R(14)), losses, 15)
         IN  IF RIsZero(avg_loss) THEN R(100)
             ELSE LET rs == RDivNZ(avg_gain, avg_loss)
                  IN  RSub(R(100), RDivNZ(R(100), RAdd(R(1), rs)))

RECURSIVE EmaLoop(_, _, _)
EmaLoop(ema, rest, multiplier) ==
    IF rest = <<>> THEN ema
    ELSE LET last == ema[Len(ema)]
         IN  EmaLoop(Append(ema, RAdd(RMul(RSub(rest[1], last), multiplier), last)),
                     Tail(rest), multiplier)

\* the series called too short when it is exactly one period long
CalcEmaShortAtPeriod(prices, period) ==
    IF Len(prices) <= period THEN <<>>
    ELSE EmaLoop(<<RDivNZ(RSum(Take(prices, period)), R(period))>>,
                 Drop(prices, period), Rat(2, period + 1))

\* period >= 1
CalcEma(prices, period) ==
    IF Len(prices) < period THEN <<>>
    ELSE EmaLoop(<<RDivNZ(RSum(Take(prices, period)), R(period))>>,
                 Drop(prices, period), Rat(2, period + 1))

EmaValues(emas) == [i \in {j \in DOMAIN emas : emas[j] # <<>>} |-> emas[i][Len(emas[i])]]

\* a price equal to an EMA counted as above it
AnalyzeTrendNonStrict(current, emas) ==
    LET ema_values == EmaValues(emas)
        above == Cardinality({i \in DOMAIN ema_values : RLe(ema_values[i], current)})
        below == Cardinality({i \in DOMAIN ema_values : RLt(current, ema_values[i])})
        n == Cardinality(DOMAIN ema_values)
    IN  IF n = 0 THEN "Neutral"
        ELSE IF above = n THEN "Bullish"
        ELSE IF below = n THEN "Bearish"
        ELSE "Neutral"

\* a series without a value counted as an EMA of 0
AnalyzeTrendZeroForAbsent(current, emas) ==
    LET ema_values == [i \in DOMAIN emas |->
                          IF emas[i] = <<>> THEN R(0) ELSE emas[i][Len(emas[i])]]
        above == Cardinality({i \in DOMAIN ema_values : RGt(current, ema_values[i])})
        below == Cardinality({i \in DOMAIN ema_values : RLt(current, ema_values[i])})
        n == Cardinality(DOMAIN ema_values)
    IN  IF n = 0 THEN "Neutral"
        ELSE IF above = n THEN "Bullish"
        ELSE IF below = n THEN "Bearish"
        ELSE "Neutral"

AnalyzeTrend(current, emas) ==
    LET ema_values == EmaValues(emas)
        above == Cardinality({i \in DOMAIN ema_values : RGt(current, ema_values[i])})
        below == Cardinality({i \in DOMAIN ema_values : RLt(current, ema_values[i])})
        n == Cardinality(DOMAIN ema_values)
    IN  IF n = 0 THEN "Neutral"
        ELSE IF above = n THEN "Bullish"
        ELSE IF below = n THEN "Bearish"
        ELSE "Neutral"

----------------------------------------------------------------------------
(* MarketIntelFetcher: the snapshot builder *)

\* "BTC" in symbol.upper(), "ETH" in symbol.upper(), for the symbols of the model
HasBTC(symbol) == symbol \in {"BTCUSD"}
HasETH(symbol) == symbol \in {"ethusdt"}

\* one base for every symbol that is not BTC
BasePriceTwoTier(symbol) == IF HasBTC(symbol) THEN 50000 ELSE 100
BasePrice(symbol) == IF HasBTC(symbol) THEN 50000 ELSE (IF HasETH(symbol) THEN 2000 ELSE 100)

Pct(x, p) == RMul(x, Rat(p, 100))

\* rnd: the values the random module hands out during the call
\*   offset  random.uniform(-base*0.05, base*0.05) as a percentage of base
\*   volume  random.uniform(1_000_000, 10_000_000)
\*   change  random.uniform(-5, 5)
\*   rsi     random.uniform(30, 70)
\*   r1, r2  the two random.random() of the trend pick
MockTrend(rnd) ==
    IF RLt(rnd.r1, Rat(1, 2)) THEN "Neutral"
    ELSE (IF RLt(rnd.r2, Rat(7, 10)) THEN "Bullish" ELSE "Bearish")

\* the levels of the live formula, from the mock's own high and low
MockKeyLevelsByFormula(current) ==
    [pivot |-> RDivNZ(RAdd(RAdd(Pct(current, 102), Pct(current, 96)), current), R(3)),
     s1 |-> RSub(RMul(current, R(2)), Pct(current, 102)),
     s2 |-> RSub(current, RSub(Pct(current, 102), Pct(current, 96))),
     r1 |-> RSub(RMul(current, R(2)), Pct(current, 96)),
     r2 |-> RAdd(current, RSub(Pct(current, 102), Pct(current, 96)))]

\* 'key_levels' of the mock snapshot, lines 111-117
MockKeyLevels(current) ==
    [pivot |-> current,
     s1 |-> Pct(current, 95),
     s2 |-> Pct(current, 90),
     r1 |-> Pct(current, 105),
     r2 |-> Pct(current, 110)]

MockTradingviewData(symbol, timeframe, rnd) ==
    LET base_price == R(BasePrice(symbol))
        current == RAdd(base_price, Pct(base_price, rnd.offset))
    IN  [symbol |-> symbol,
         timeframe |-> timeframe,
         current_price |-> current,
         open_24h |-> Pct(current, 98),
         high_24h |-> Pct(current, 102),
         low_24h |-> Pct(current, 96),
         volume_24h |-> rnd.volume,
         change_24h |-> rnd.change,
         rsi |-> rnd.rsi,
         ema_20 |-> Pct(current, 99),
         ema_50 |-> Pct(current, 98),
         ema_200 |-> Pct(current, 95),
         trend |-> MockTrend(rnd),
         key_levels |-> MockKeyLevels(current),
         last_50_candles |-> 50,
         timestamp |-> "now",
         timezone |-> "America/Los_Angeles",
         source |-> "mock_data"]

\* column i (Python index) of the candle rows, as numbers
Column(data, i) == [k \in DOMAIN data |-> R(data[k][i + 1])]

LastOrZero(ema) == IF ema # <<>> THEN ema[Len(ema)] ELSE R(0)

\* the levels with high and low taken for each other
KeyLevelsSwapped(current_price, high_24h, low_24h) ==
    [pivot |-> RDivNZ(RAdd(RAdd(high_24h, low_24h), current_price), R(3)),
     s1 |-> RSub(RMul(current_price, R(2)), low_24h),
     s2 |-> RSub(current_price, RSub(high_24h, low_24h)),
     r1 |-> RSub(RMul(current_price, R(2)), high_24h),
     r2 |-> RAdd(current_price, RSub(high_24h, low_24h))]

\* the first support and resistance kept on their side of the pivot
KeyLevelsClamped(current_price, high_24h, low_24h) ==
    LET pivot == RDivNZ(RAdd(RAdd(high_24h, low_24h), current_price), R(3))
        s1 == RSub(RMul(current_price, R(2)), high_24h)
        r1 == RSub(RMul(current_price, R(2)), low_24h)
    IN  [pivot |-> pivot,
         s1 |-> IF RGt(s1, pivot) THEN pivot ELSE s1,
         s2 |-> RSub(current_price, RSub(high_24h, low_24h)),
         r1 |-> IF RLt(r1, pivot) THEN pivot ELSE r1,
         r2 |-> RAdd(current_price, RSub(high_24h, low_24h))]

\* 'key_levels' of the live snapshot, lines 73-79
KeyLevels(current_price, high_24h, low_24h) ==
    [pivot |-> RDivNZ(RAdd(RAdd(high_24h, low_24h), current_price), R(3)),
     s1 |-> RSub(RMul(current_price, R(2)), high_24h),
     s2 |-> RSub(current_price, RSub(high_24h, low_24h)),
     r1 |-> RSub(RMul(current_price, R(2)), low_24h),
     r2 |-> RAdd(current_price, RSub(high_24h, low_24h))]

\* 'open_24h', line 63
Open24h(opens) == IF Len(opens) >= 24 THEN opens[Len(opens) - 23] ELSE opens[1]

\* the change against the reported open, whatever the length of the series
Change24hAlways(current_price, opens) ==
    LET ratio == RDiv(RSub(current_price, Open24h(opens)), Open24h(opens))
    IN  IF IsOk(ratio) THEN Ok(RMul(ratio.v, R(100))) ELSE ratio

\* 'change_24h', line 67
Change24h(current_price, opens) ==
    IF Len(opens) >= 24
    THEN LET ratio == RDiv(RSub(current_price, opens[Len(opens) - 23]), opens[Len(opens) - 23])
         IN  IF IsOk(ratio) THEN Ok(RMul(ratio.v, R(100))) ELSE ratio
    ELSE Ok(R(0))

\* the dict literal of lines 59-83, for rows that all have the six columns
LiveSnapshot(symbol, timeframe, data) ==
    LET closes == Column(data, 4)
        opens == Column(data, 1)
        highs == Column(data, 2)
        lows == Column(data, 3)
        volumes == Column(data, 5)
        rsi == CalcRsi(LastN(closes, 14))
        ema_20 == CalcEma(closes, 20)
        ema_50 == CalcEma(closes, 50)
        ema_200 == CalcEma(closes, 200)
        current_price == closes[Len(closes)]
        high_24h == RMax(LastN(highs, 24))
        low_24h == RMin(LastN(lows, 24))
        volume_24h == RSum(LastN(volumes, 24))
        count == Len(data)
        change == Change24h(current_price, opens)
    IN  IF ~IsOk(change) THEN change
        ELSE Ok([symbol |-> symbol,
                 timeframe |-> timeframe,
                 current_price |-> current_price,
                 open_24h |-> Open24h(opens),
                 high_24h |-> high_24h,
                 low_24h |-> low_24h,
                 volume_24h |-> volume_24h,
                 change_24h |-> change.v,
                 rsi |-> rsi,
                 ema_20 |-> LastOrZero(ema_20),
                 ema_50 |-> LastOrZero(ema_50),
                 ema_200 |-> LastOrZero(ema_200),
                 trend |-> AnalyzeTrend(current_price, <<ema_20, ema_50, ema_200>>),
                 key_levels |-> KeyLevels(current_price, high_24h, low_24h),
                 last_50_candles |-> count,
                 timestamp |-> "now",
                 timezone |-> "America/Los_Angeles"])

\* The try-body of fetch_tradingview_data, lines 29-83.  r is the answer of
\* session.get: a transport error, a timeout, or a response with a status
\* and a body.  Fallback stands for the early return of line 36.
TradingviewTry(symbol, timeframe, r) ==
    IF r.kind \in {"transport_error", "timeout"} THEN Raise("RequestException")
    ELSE IF r.status >= 400 THEN Raise("HTTPError")
    ELSE IF r.body.t = "invalid" THEN Raise("JSONDecodeError")
    ELSE IF ~Truthy(r.body) \/ r.body.t # "list" THEN Fallback
    ELSE IF \E k \in DOMAIN r.body.v : Len(r.body.v[k]) < 6 THEN Raise("IndexError")
    ELSE LiveSnapshot(symbol, timeframe, r.body.v)

\* an except clause that lets the exception go: only the early return falls back
FetchTradingviewDataNoExcept(symbol, timeframe, r, rnd) ==
    LET t == TradingviewTry(symbol, timeframe, r)
    IN  IF IsOk(t) THEN t.v
        ELSE IF t.tag = "fallback" THEN MockTradingviewData(symbol, timeframe, rnd)
        ELSE t

FetchTradingviewData(symbol, timeframe, r, rnd) ==
    LET t == TradingviewTry(symbol, timeframe, r)
    IN  IF IsOk(t) THEN t.v
        ELSE MockTradingviewData(symbol, timeframe, rnd)

----------------------------------------------------------------------------
(* MarketIntelFetcher: market data and news *)

\* symbol.lower() and len(symbol), for the symbols of the model
Lower(symbol) ==
    CASE symbol = "BTCUSD" -> "btcusd"
      [] symbol = "ethusdt" -> "ethusdt"
      [] symbol = "ZZZ" -> "zzz"

SymLen(symbol) ==
    CASE symbol = "BTCUSD" -> 6
      [] symbol = "ethusdt" -> 7
      [] symbol = "ZZZ" -> 3

\* a number of the program, as opposed to a decoded JSON value that is none
IsNum(x) == "n" \in DOMAIN x
\* a JSON number read as a number of the program, any other JSON value as it is
FromJson(x) == IF x.t = "num" THEN R(x.v) ELSE x

\* rnd: offset, change, volume, spread drawn by random.uniform
MockMarketData(symbol, market, rnd) ==
    LET base == R(BasePrice(symbol))
    IN  [current_price |-> RAdd(base, Pct(base, rnd.offset)),
         change_24h |-> rnd.change,
         market |-> market,
         volume_24h |-> rnd.volume,
         spread |-> rnd.spread,
         source |-> "mock"]

\* the try-body of fetch_market_data, lines 190-203
MarketDataTry(symbol, market, r) ==
    IF market # "crypto" THEN Fallback
    ELSE IF r.kind \in {"transport_error", "timeout"} THEN Raise("RequestException")
    ELSE IF r.body.t = "invalid" THEN Raise("JSONDecodeError")
    ELSE IF r.body.t \in {"null", "num"} THEN Raise("TypeError")
    ELSE IF r.body.t # "obj" THEN Fallback
    ELSE IF Lower(symbol) \notin DOMAIN r.body.v THEN Fallback
    ELSE LET entry == r.body.v[Lower(symbol)]
         IN  IF entry.t # "obj" THEN Raise("TypeError")
             ELSE IF "usd" \notin DOMAIN entry.v THEN Raise("KeyError")
             ELSE Ok([current_price |-> FromJson(entry.v["usd"]),
                      change_24h |-> FromJson(Get(entry.v, "usd_24h_change", JNum(0))),
                      market |-> market,
                      source |-> "coingecko"])

FetchMarketData(symbol, market, r, rnd) ==
    LET t == MarketDataTry(symbol, market, r)
    IN  IF IsOk(t) THEN t.v ELSE MockMarketData(symbol, market, rnd)

Text(s, len) == JStr(Str(<<s>>, len))

MockNews(symbol) ==
    << [title |-> JStr(Str(<<symbol, " shows resilience amid market volatility">>, SymLen(symbol) + 40)),
        source |-> Text("MarketWatch", 11),
        published_at |-> Text("now - 2h", 26),
        url |-> Text("https://example.com/news/article", 32),
        domain |-> Text("marketwatch.com", 15),
        importance |-> JNum(2)],
       [title |-> JStr(Str(<<"Federal Reserve hints at policy shift affecting ", symbol>>, 48 + SymLen(symbol))),
        source |-> Text("Forexlive", 9),
        published_at |-> Text("now - 8h", 26),
        url |-> Text("https://example.com/news/fed", 28),
        domain |-> Text("forexlive.com", 13),
        importance |-> JNum(3)],
       [title |-> JStr(Str(<<"Technical analysis: ", symbol, " breakout above key resistance">>, 50 + SymLen(symbol))),
        source |-> Text("TradingView", 11),
        published_at |-> Text("now - 1d", 26),
        url |-> Text("https://example.com/news/tech", 29),
        domain |-> Text("tradingview.com", 15),
        importance |-> JNum(1)] >>

\* one pass of the loop of lines 232-241: item is a decoded JSON value
NewsItem(item) ==
    IF item.t # "obj" THEN Raise("AttributeError")
    ELSE LET src == Get(item.v, "source", JObj(EmptyDict))
         IN  IF src.t # "obj" THEN Raise("AttributeError")
             ELSE Ok([title |-> Get(item.v, "title", Text("", 0)),
                      source |-> Get(src.v, "title", Text("Unknown", 7)),
                      published_at |-> Get(item.v, "published_at", Text("", 0)),
                      url |-> Get(item.v, "url", Text("#", 1)),
                      domain |-> Get(item.v, "domain", Text("", 0)),
                      importance |-> Get(item.v, "importance", JNum(0))])

\* the try-body of fetch_news, lines 227-247
\* everything read handed on: the trim to five left out
NewsTryUntrimmed(symbol, scope, r) ==
    IF r.kind \in {"transport_error", "timeout"} THEN Raise("RequestException")
    ELSE IF r.body.t = "invalid" THEN Raise("JSONDecodeError")
    ELSE IF r.body.t # "obj" THEN Raise("AttributeError")
    ELSE LET results == Slice(Get(r.body.v, "results", JList(<<>>)), 10)
         IN  IF ~IsOk(results) THEN results
             ELSE IF results.v.t = "str"
                  THEN (IF results.v.v.len > 0 THEN Raise("AttributeError")
                        ELSE IF scope = "symbol+macro" THEN Fallback ELSE Ok(<<>>))
             ELSE LET items == [i \in DOMAIN results.v.v |-> NewsItem(results.v.v[i])]
                      found == [i \in DOMAIN items |-> items[i].v]
                  IN  IF \E i \in DOMAIN items : ~IsOk(items[i]) THEN Raise("AttributeError")
                      ELSE IF found = <<>> /\ scope = "symbol+macro" THEN Fallback
                      ELSE Ok(found)

NewsTry(symbol, scope, r) ==
    IF r.kind \in {"transport_error", "timeout"} THEN Raise("RequestException")
    ELSE IF r.body.t = "invalid" THEN Raise("JSONDecodeError")
    ELSE IF r.body.t # "obj" THEN Raise("AttributeError")
    ELSE LET results == Slice(Get(r.body.v, "results", JList(<<>>)), 10)
         IN  IF ~IsOk(results) THEN results
             ELSE IF results.v.t = "str"
                  THEN (IF results.v.v.len > 0 THEN Raise("AttributeError")
                        ELSE IF scope = "symbol+macro" THEN Fallback ELSE Ok(<<>>))
             ELSE LET items == [i \in DOMAIN results.v.v |-> NewsItem(results.v.v[i])]
                      found == [i \in DOMAIN items |-> items[i].v]
                  IN  IF \E i \in DOMAIN items : ~IsOk(items[i]) THEN Raise("AttributeError")
                      ELSE IF found = <<>> /\ scope = "symbol+macro" THEN Fallback
                      ELSE Ok(Take(found, 5))

\* an except clause that answers with no news
FetchNewsEmptyOnError(symbol, scope, r) ==
    LET t == NewsTry(symbol, scope, r)
    IN  IF IsOk(t) THEN t.v
        ELSE IF t.tag = "fallback" THEN MockNews(symbol)
        ELSE <<>>

\* canned headlines whenever nothing was read, whatever the scope
FetchNewsNeverEmpty(symbol, scope, r) ==
    LET t == NewsTry(symbol, scope, r)
    IN  IF IsOk(t) /\ t.v # <<>> THEN t.v ELSE MockNews(symbol)

FetchNews(symbol, scope, r) ==
    LET t == NewsTry(symbol, scope, r)
    IN  IF IsOk(t) THEN t.v ELSE MockNews(symbol)

----------------------------------------------------------------------------
(* MarketIntelSkill: scoring *)

\* the bands with their ends included, as a comparison slip would have them
RiskLevelInclusive(rsi) ==
    IF RLe(R(70), rsi) \/ RLe(rsi, R(30)) THEN "High"
    ELSE IF RLe(R(40), rsi) /\ RLe(rsi, R(60)) THEN "Low"
    ELSE "Medium"

\* lines 354-359 of _format_risk_only
RiskLevel(rsi) ==
    IF RGt(rsi, R(70)) \/ RLt(rsi, R(30)) THEN "High"
    ELSE IF RLt(R(40), rsi) /\ RLt(rsi, R(60)) THEN "Low"
    ELSE "Medium"

\* the RSI point awarded on the closed band
CalcConfidenceInclusive(tradingview, items) ==
    LET rsi == Get(tradingview, "rsi", R(50))
        trend == Get(tradingview, "trend", "Neutral")
        confidence == (IF trend # "Neutral" THEN 1 ELSE 0)
                      + (IF RLe(R(40), rsi) /\ RLe(rsi, R(60)) THEN 1 ELSE 0)
                      + (IF Len(items) > 0 THEN 1 ELSE 0)
    IN  IF confidence = 3 THEN "High"
        ELSE IF confidence = 2 THEN "Medium"
        ELSE "Low"

CalcConfidence(tradingview, items) ==
    LET rsi == Get(tradingview, "rsi", R(50))
        trend == Get(tradingview, "trend", "Neutral")
        confidence == (IF trend # "Neutral" THEN 1 ELSE 0)
                      + (IF RLt(R(40), rsi) /\ RLt(rsi, R(60)) THEN 1 ELSE 0)
                      + (IF Len(items) > 0 THEN 1 ELSE 0)
    IN  IF confidence = 3 THEN "High"
        ELSE IF confidence = 2 THEN "Medium"
        ELSE "Low"

CalcRiskWarning(tradingview) ==
    LET rsi == Get(tradingview, "rsi", R(50))
    IN  IF RGt(rsi, R(80)) \/ RLt(rsi, R(20)) THEN "Overbought/Oversold - reversal risk"
        ELSE IF RGt(rsi, R(70)) \/ RLt(rsi, R(30)) THEN "Extended - caution"
        ELSE "Normal trading conditions"

----------------------------------------------------------------------------
(* MarketIntelSkill: report formatters *)

\* The pieces of an f-string are evaluated left to right; the first one
\* that raises ends the formatter.
Build(pieces) ==
    IF \A i \in DOMAIN pieces : IsOk(pieces[i])
    THEN Ok(Concat([i \in DOMAIN pieces |-> pieces[i].v]))
    ELSE pieces[CHOOSE i \in DOMAIN pieces :
                    ~IsOk(pieces[i]) /\ \A j \in 1..(i - 1) : IsOk(pieces[j])]

\* {x:,.2f} and the like: a value that is no number raises TypeError
NumSeg(lbl, x) == IF IsNum(x) THEN Ok(<<Seg(lbl, x)>>) ELSE Raise("TypeError")

\* item[key][:k]
Field(item, key, k) ==
    IF key \notin DOMAIN item THEN Raise("KeyError") ELSE Slice(item[key], k)

Levels(tradingview) == Get(tradingview, "key_levels", EmptyDict)
Level(tradingview, key) == Get(Levels(tradingview), key, R(0))

\* a quick bias that also prints where the snapshot came from
FormatQuickBiasTagged(symbol, market, timeframe, tradingview, items) ==
    LET bias == Get(tradingview, "trend", "Neutral")
        rsi == Get(tradingview, "rsi", R(50))
        current == Get(tradingview, "current_price", R(0))
    IN  Build(<< Ok(<<Seg("symbol", symbol), Seg("market", market), Seg("timeframe", timeframe)>>),
                 NumSeg("Price", current),
                 Ok(<<Seg("Bias", bias)>>),
                 NumSeg("RSI", rsi),
                 Ok(<<Seg("Source", Get(tradingview, "source", "live"))>>) >>)

FormatQuickBias(symbol, market, timeframe, tradingview, items) ==
    LET bias == Get(tradingview, "trend", "Neutral")
        rsi == Get(tradingview, "rsi", R(50))
        current == Get(tradingview, "current_price", R(0))
        latest == IF items = <<>> THEN Ok(<<>>)
                  ELSE LET t == Field(items[1], "title", 100)
                       IN  IF IsOk(t) THEN Ok(<<Seg("Latest", t.v), Lit("...")>>) ELSE t
    IN  Build(<< Ok(<<Seg("symbol", symbol), Seg("market", market), Seg("timeframe", timeframe)>>),
                 NumSeg("Price", current),
                 Ok(<<Seg("Bias", bias)>>),
                 NumSeg("RSI", rsi),
                 latest >>)

FormatRiskOnly(symbol, tradingview, market_data) ==
    LET ratio == RDiv(Get(tradingview, "atr", R(0)), Get(tradingview, "current_price", R(1)))
        rsi == Get(tradingview, "rsi", R(50))
    IN  Build(<< Ok(<<Seg("symbol", symbol), Lit("Risk Assessment")>>),
                 IF IsOk(ratio) THEN Ok(<<Seg("Volatility (ATR)", RMul(ratio.v, R(100)))>>) ELSE ratio,
                 NumSeg("Volume (24h)", Get(market_data, "volume_24h", R(0))),
                 NumSeg("Spread", Get(market_data, "spread", R(0))),
                 Ok(<<Lit("Key Levels")>>),
                 NumSeg("Support", Level(tradingview, "s1")),
                 NumSeg("Resistance", Level(tradingview, "r1")),
                 Ok(<<Seg("Risk Level", RiskLevel(rsi))>>) >>)

\* one headline of the news briefing, lines 377-380
BriefingItem(i, item) ==
    LET title == Field(item, "title", 120)
        n == IF "title" \in DOMAIN item THEN JLen(item["title"]) ELSE Raise("KeyError")
        published == Field(item, "published_at", 16)
    IN  Build(<< IF IsOk(title) THEN Ok(<<Seg("index", i), Seg("headline", title.v)>>) ELSE title,
                 IF IsOk(n) THEN Ok(IF n.v > 120 THEN <<Lit("...")>> ELSE <<>>) ELSE n,
                 IF "source" \in DOMAIN item THEN Ok(<<Seg("source", item["source"])>>)
                 ELSE Raise("KeyError"),
                 IF IsOk(published) THEN Ok(<<Seg("published_at", published.v)>>) ELSE published >>)

FormatNewsBriefing(symbol, items, market_data) ==
    LET change == Get(market_data, "change_24h", R(0))
        shown == Take(items, 5)
    IN  Build(<< Ok(<<Seg("symbol", symbol), Lit("News Briefing")>>),
                 NumSeg("Market Status", Get(market_data, "current_price", R(0))),
                 NumSeg("change", change),
                 Ok(<<Lit("Latest Headlines")>>) >>
              \o [i \in DOMAIN shown |-> BriefingItem(i, shown[i])])


\* tz.split('/') for the timezone strings of the model
SplitSlash(tz) ==
    CASE tz = "America/Los_Angeles" -> <<"America", "Los_Angeles">>
      [] tz = "UTC" -> <<"UTC">>

\* tradingview.get('timezone').split('/')[1]
Region(tradingview) ==
    IF "timezone" \notin DOMAIN tradingview THEN Raise("AttributeError")
    ELSE LET parts == SplitSlash(tradingview["timezone"])
         IN  IF Len(parts) < 2 THEN Raise("IndexError") ELSE Ok(<<Seg("Region", parts[2])>>)

\* one headline of the full plan, line 427
PlanItem(item) ==
    LET title == Field(item, "title", 80)
        published == Field(item, "published_at", 16)
    IN  Build(<< IF IsOk(title) THEN Ok(<<Seg("headline", title.v)>>) ELSE title,
                 IF "source" \in DOMAIN item THEN Ok(<<Seg("source", item["source"])>>)
                 ELSE Raise("KeyError"),
                 IF IsOk(published) THEN Ok(<<Seg("published_at", published.v)>>) ELSE published >>)

TrendAnalysis(tradingview, current) ==
    LET ema_200 == Get(tradingview, "ema_200", R(0))
    IN  IF ~RIsZero(ema_200) THEN (IF RGt(current, ema_200) THEN "above" ELSE "below")
        ELSE "near"

\* the scenarios put before the news
SectionHeadersNewsLate ==
    <<"1) SNAPSHOT (NOW)", "2) TECHNICAL READ", "4) TRADE SCENARIOS",
      "3) NEWS & CATALYST MAP", "5) RISK NOTES">>

\* the section headers of the plan, lines 393, 410, 423, 430, 448
SectionHeaders ==
    <<"1) SNAPSHOT (NOW)", "2) TECHNICAL READ", "3) NEWS & CATALYST MAP",
      "4) TRADE SCENARIOS", "5) RISK NOTES">>

\* now: what datetime.now() reads when the plan is rendered (line 398)
FormatFullPlanAt(now, symbol, market, timeframe, tradingview, market_data, items) ==
    LET current == Get(tradingview, "current_price", R(0))
        shown == Take(items, Min(Len(items), 3))
    IN  Build(<< Ok(<<Seg("symbol", symbol), Lit("Trade Plan"),
                      Lit(SectionHeaders[1]),
                      Seg("Symbol", symbol), Seg("Market", market), Seg("Timeframe", timeframe),
                      Seg("Time", now)>>),
                 NumSeg("Price", current),
                 NumSeg("24h Change", Get(tradingview, "change_24h", R(0))),
                 NumSeg("Volume", Get(tradingview, "volume_24h", R(1000000))),
                 Ok(<<Lit("Key Levels")>>),
                 NumSeg("Support", Level(tradingview, "s1")),
                 NumSeg("Pivot", Level(tradingview, "pivot")),
                 NumSeg("Resistance", Level(tradingview, "r1")),
                 Ok(<<Lit(SectionHeaders[2]),
                      Seg("Trend", Get(tradingview, "trend", "Neutral")),
                      Lit("Indicators")>>),
                 NumSeg("RSI", Get(tradingview, "rsi", R(50))),
                 NumSeg("EMA 20", Get(tradingview, "ema_20", R(0))),
                 NumSeg("EMA 50", Get(tradingview, "ema_50", R(0))),
                 NumSeg("EMA 200", Get(tradingview, "ema_200", R(0))),
                 Ok(<<Seg("Trend Analysis", TrendAnalysis(tradingview, current)),
                      Lit(SectionHeaders[3]),
                      Seg("Found", Len(items))>>) >>
              \o [i \in DOMAIN shown |-> PlanItem(shown[i])]
              \o << Ok(<<Lit(SectionHeaders[4]), Lit("BULL CASE")>>),
                    NumSeg("Trigger", Level(tradingview, "r1")),
                    NumSeg("Target", Level(tradingview, "r2")),
                    NumSeg("Invalidation", Level(tradingview, "s1")),
                    Ok(<<Lit("BEAR CASE")>>),
                    NumSeg("Trigger", Level(tradingview, "s1")),
                    NumSeg("Target", Level(tradingview, "s2")),
                    NumSeg("Invalidation", Level(tradingview, "r1")),
                    Ok(<<Lit("CHOP CASE")>>),
                    NumSeg("Range low", Level(tradingview, "s1")),
                    NumSeg("Range high", Level(tradingview, "r1")),
                    Ok(<<Lit("Action: Wait for breakout, avoid middle"),
                         Lit(SectionHeaders[5]),
                         Seg("Confidence", CalcConfidence(tradingview, items)),
                         Seg("Volatility", RMul(Level(tradingview, "r1"), Rat(2, 100))),
                         Seg("Liquidity", "Good")>>),
                    Region(tradingview),
                    Ok(<<Seg("Bias", Get(tradingview, "trend", "Neutral")),
                         Lit("Invalidation: Break of key level"),
                         Seg("Caution", CalcRiskWarning(tradingview))>>) >>)

\* the readings of the clock: the one of a call, and one after it
Clock == {"now", "later"}

FormatFullPlan(symbol, market, timeframe, tradingview, market_data, items) ==
    FormatFullPlanAt("now", symbol, market, timeframe, tradingview, market_data, items)

\* a dispatch that refuses the modes it does not know
FormatOutputStrict(symbol, market, timeframe, tradingview, market_data, items, output_mode) ==
    IF output_mode = "quick bias"
    THEN FormatQuickBias(symbol, market, timeframe, tradingview, items)
    ELSE IF output_mode = "risk-only"
    THEN FormatRiskOnly(symbol, tradingview, market_data)
    ELSE IF output_mode = "news briefing"
    THEN FormatNewsBriefing(symbol, items, market_data)
    ELSE IF output_mode = "full trade plan"
    THEN FormatFullPlan(symbol, market, timeframe, tradingview, market_data, items)
    ELSE Raise("ValueError")

FormatOutput(symbol, market, timeframe, tradingview, market_data, items, output_mode) ==
    IF output_mode = "quick bias"
    THEN FormatQuickBias(symbol, market, timeframe, tradingview, items)
    ELSE IF output_mode = "risk-only"
    THEN FormatRiskOnly(symbol, tradingview, market_data)
    ELSE IF output_mode = "news briefing"
    THEN FormatNewsBriefing(symbol, items, market_data)
    ELSE FormatFullPlan(symbol, market, timeframe, tradingview, market_data, items)

\* line 504: the cross mark, "MarketIntel error: " and str(e)
ErrorMarker == "[x] MarketIntel error: "

\* the bare str(e), without the marker
ErrorStringBare(e) == <<Seg("exception", e)>>

ErrorString(e) == <<Lit(ErrorMarker), Seg("exception", e)>>

----------------------------------------------------------------------------
(* What the call can be given: arguments, responses, random draws *)

Symbols == {"BTCUSD", "ethusdt", "ZZZ"}
\* the symbols whole calls are followed for
CallSymbols == {"BTCUSD", "ZZZ"}
Markets == {"crypto", "stocks"}
Timeframes == {"1h"}
\* the four modes of _format_output and one it does not know
OutputModes == {"quick bias", "risk-only", "news briefing", "full trade plan", "summary"}
NewsScopes == {"symbol+macro", "symbol-only"}
TrendLabels == {"Bullish", "Bearish", "Neutral"}

NoResponse == [kind |-> "none"]
Failure(kind) == [kind |-> kind]
Response(status, body) == [kind |-> "response", status |-> status, body |-> body]
Invalid == [t |-> "invalid"]   \* a body response.json() cannot decode

\* Candle rows [timestamp, open, high, low, close, volume], oldest first.
CandleShapes == {"flat", "up", "down", "zero_open", "zigzag", "range", "at_high"}
Candle(shape, n, i) ==
    CASE shape = "flat" -> <<i, 5, 5, 5, 5, 1>>
      [] shape = "up" -> <<i, i, i + 2, i, i + 1, 1>>
      [] shape = "down" -> <<i, n - i + 1, n - i + 1, n - i, n - i, 1>>
      [] shape = "zero_open" -> <<i, 0, 5, 0, 5, 1>>
      [] shape = "zigzag" -> <<i, i, i + 3, i, i + 2 * (i % 2), 1>>
      [] shape = "range" -> <<i, 100, 110, 90, 100, 1>>
      [] shape = "at_high" -> <<i, i, i + 1, i, i + 1, 1>>
CandleRows(shape, n) == [i \in 1..n |-> Candle(shape, n, i)]
\* lengths around the windows of the code: 14 (RSI), 20 (EMA-20), 24 (24h)
SeriesLens == {1, 2, 14, 20, 24, 25}

\* A case names one answer of the candle endpoint: <<kind, shape, length>>.
CandleCases ==
    ({"transport_error", "timeout", "http_500", "invalid", "null", "object",
      "empty_list", "short_row", "short_last_row"} \X {"-"} \X {0})
    \cup ({"rows"} \X CandleShapes \X SeriesLens)

\* the answers whole calls are followed for
CallCandleCases ==
    {c \in CandleCases : c[1] # "rows"}
    \cup {<<"rows", "flat", 1>>, <<"rows", "flat", 14>>, <<"rows", "up", 14>>,
          <<"rows", "down", 14>>, <<"rows", "up", 20>>, <<"rows", "down", 20>>,
          <<"rows", "up", 24>>, <<"rows", "zero_open", 24>>}

CandleResponse(c) ==
    CASE c[1] \in {"transport_error", "timeout"} -> Failure(c[1])
      [] c[1] = "http_500" -> Response(500, JNull)
      [] c[1] = "invalid" -> Response(200, Invalid)
      [] c[1] = "null" -> Response(200, JNull)
      [] c[1] = "object" -> Response(200, JObj([error |-> Text("rate limited", 12)]))
      [] c[1] = "empty_list" -> Response(200, JList(<<>>))
      [] c[1] = "short_row" -> Response(200, JList(<< <<1, 5, 5>> >>))
      [] c[1] = "short_last_row" ->
            Response(200, JList(Append(CandleRows("flat", 2), <<3, 5, 5, 5, 5>>)))
      [] c[1] = "rows" -> Response(200, JList(CandleRows(c[2], c[3])))

\* What random can hand out: the ends of each range and a value inside.
TradingviewRnds ==
    [offset : {-5, 0, 5}, volume : {R(1000000), R(10000000)}, change : {R(-5), R(0), R(5)},
     rsi : {R(30), R(35), R(50), R(65), R(70)},
     r1 : {Rat(1, 4), Rat(3, 4)}, r2 : {Rat(1, 4), Rat(3, 4)}]
\* the draws whole calls are followed for
CallTradingviewRnds ==
    {rnd \in TradingviewRnds :
        /\ rnd.offset # 0 /\ rnd.volume = R(1000000) /\ rnd.change = R(5)
        /\ rnd.rsi \in {R(30), R(50), R(70)}}

MarketCases ==
    {"transport_error", "timeout", "invalid", "null", "list", "empty_object",
     "entry_number", "entry_empty", "price", "price_and_change", "price_null"}

MarketResponse(c, symbol) ==
    LET entry(e) == Response(200, JObj((Lower(symbol)) :> e))
    IN  CASE c \in {"transport_error", "timeout"} -> Failure(c)
          [] c = "invalid" -> Response(200, Invalid)
          [] c = "null" -> Response(200, JNull)
          [] c = "list" -> Response(200, JList(<<>>))
          [] c = "empty_object" -> Response(200, JObj(EmptyDict))
          [] c = "entry_number" -> entry(JNum(1))
          [] c = "entry_empty" -> entry(JObj(EmptyDict))
          [] c = "price" -> entry(JObj([usd |-> JNum(100)]))
          [] c = "price_and_change" ->
                entry(JObj([usd |-> JNum(100), usd_24h_change |-> JNum(2)]))
          [] c = "price_null" -> entry(JObj([usd |-> JNull]))

MarketRnds ==
    [offset : {-5, 0, 5}, change : {R(-5), R(0), R(5)},
     volume : {R(1000000), R(10000000)}, spread : {Rat(1, 10), R(2)}]
CallMarketRnds ==
    {rnd \in MarketRnds :
        rnd.offset = 5 /\ rnd.change # R(0) /\ rnd.volume = R(1000000) /\ rnd.spread = R(2)}

\* News results: n items of one shape; the i-th title is 117 + 2i characters long.
MaxResults == 11
ItemShapes == {"ok", "empty", "null_title", "null_published", "source_string", "string"}
ResultItem(shape, i) ==
    LET full == [title |-> JStr(Str(<<"Headline ", i>>, 117 + 2 * i)),
                 source |-> JObj([title |-> Text("CryptoPanic", 11)]),
                 published_at |-> Text("2024-01-01T00:00:00Z", 20),
                 url |-> Text("https://cryptopanic.com/news/1", 30),
                 domain |-> Text("cryptopanic.com", 15),
                 importance |-> JNum(1)]
    IN  CASE shape = "ok" -> JObj(full)
          [] shape = "empty" -> JObj(EmptyDict)
          [] shape = "null_title" -> JObj([full EXCEPT !.title = JNull])
          [] shape = "null_published" -> JObj([full EXCEPT !.published_at = JNull])
          [] shape = "source_string" -> JObj([full EXCEPT !.source = Text("CryptoPanic", 11)])
          [] shape = "string" -> Text("Headline", 8)
Results(shape, n) == JList([i \in 1..n |-> ResultItem(shape, i)])
ResultCounts == {0, 1, 3, 6, MaxResults}

\* A case names one answer of the news endpoint: <<kind, item shape, item count>>.
NewsCases ==
    ({"transport_error", "timeout", "invalid", "null", "list", "empty_object",
      "results_null", "results_empty_string", "results_string", "results_object"}
        \X {"-"} \X {0})
    \cup ({"results"} \X {"ok"} \X ResultCounts)
    \cup ({"results"} \X ItemShapes \X {1})

NewsResponse(c) ==
    CASE c[1] \in {"transport_error", "timeout"} -> Failure(c[1])
      [] c[1] = "invalid" -> Response(200, Invalid)
      [] c[1] = "null" -> Response(200, JNull)
      [] c[1] = "list" -> Response(200, JList(<<>>))
      [] c[1] = "empty_object" -> Response(200, JObj(EmptyDict))
      [] c[1] = "results_null" -> Response(200, JObj([results |-> JNull]))
      [] c[1] = "results_empty_string" -> Response(200, JObj([results |-> Text("", 0)]))
      [] c[1] = "results_string" -> Response(200, JObj([results |-> Text("none", 4)]))
      [] c[1] = "results_object" -> Response(200, JObj([results |-> JObj(EmptyDict)]))
      [] c[1] = "results" -> Response(200, JObj([results |-> Results(c[2], c[3])]))

----------------------------------------------------------------------------
(* analyze_market: one call, step by step *)

None == [tag |-> "none"]

\* the two callers that use the module at once
Callers == {"a", "b"}
Idle == [pc |-> "idle", call |-> None, candle |-> "-", market |-> "-",
         tv |-> None, md |-> None, news |-> <<>>, result |-> None]

Init ==
    /\ pc = "idle"
    /\ call = None
    /\ requests = <<>>
    /\ steps = <<>>
    /\ tv = None
    /\ tvLive = FALSE
    /\ md = None
    /\ news = <<>>
    /\ result = None
    /\ fn = "none"
    /\ arg = None
    /\ ret = None
    /\ pair = [i \in Callers |-> Idle]
    /\ rng = 0

\* analyze_market(symbol, market, timeframe, output_mode, news_scope) is entered
Analyze ==
    /\ pc = "idle"
    /\ \E symbol \in CallSymbols, market \in Markets, timeframe \in Timeframes,
          output_mode \in OutputModes, news_scope \in NewsScopes :
            call' = [symbol |-> symbol, market |-> market, timeframe |-> timeframe,
                     output_mode |-> output_mode, news_scope |-> news_scope,
                     entry |-> "analyze_market"]
    /\ pc' = "candles"
    /\ UNCHANGED <<requests, steps, tv, tvLive, md, news, result, fnVars, pairVars>>

\* the timeframe a shorthand takes when the caller gives none
DefaultTimeframe(name) == IF name = "get_full_plan" THEN "4h" ELSE "1h"
\* get_news_briefing has no timeframe parameter
GivenTimeframes(name) ==
    IF name = "get_news_briefing" THEN {"1h"} ELSE Timeframes \cup {DefaultTimeframe(name)}

\* a risk assessment asked for with the scope of the full plan
ShorthandOneScope(name, symbol, timeframe) ==
    [symbol |-> symbol, market |-> "crypto", timeframe |-> timeframe,
     output_mode |-> CASE name = "get_quick_bias" -> "quick bias"
                       [] name = "get_full_plan" -> "full trade plan"
                       [] name = "get_risk_assessment" -> "risk-only"
                       [] name = "get_news_briefing" -> "news briefing",
     news_scope |-> IF name \in {"get_quick_bias"} THEN "symbol-only" ELSE "symbol+macro",
     entry |-> name]

\* lines 506-520: the arguments a shorthand passes on to analyze_market
Shorthand(name, symbol, timeframe) ==
    [symbol |-> symbol, market |-> "crypto", timeframe |-> timeframe,
     output_mode |-> CASE name = "get_quick_bias" -> "quick bias"
                       [] name = "get_full_plan" -> "full trade plan"
                       [] name = "get_risk_assessment" -> "risk-only"
                       [] name = "get_news_briefing" -> "news briefing",
     news_scope |-> IF name \in {"get_quick_bias", "get_risk_assessment"}
                    THEN "symbol-only" ELSE "symbol+macro",
     entry |-> name]

\* a shorthand is called and enters analyze_market
Enter(name) ==
    /\ pc = "idle"
    /\ \E symbol \in CallSymbols, timeframe \in GivenTimeframes(name) :
            call' = Shorthand(name, symbol, timeframe)
    /\ pc' = "candles"
    /\ UNCHANGED <<requests, steps, tv, tvLive, md, news, result, fnVars, pairVars>>

GetQuickBias == Enter("get_quick_bias")
GetFullPlan == Enter("get_full_plan")
GetRiskAssessment == Enter("get_risk_assessment")
GetNewsBriefing == Enter("get_news_briefing")

\* Step 1, line 294: fetch_tradingview_data
FetchCandles ==
    /\ pc = "candles"
    /\ \E c \in CallCandleCases, rnd \in CallTradingviewRnds :
        LET r == CandleResponse(c)
        IN  /\ tv' = FetchTradingviewData(call.symbol, call.timeframe, r, rnd)
            /\ tvLive' = IsOk(TradingviewTry(call.symbol, call.timeframe, r))
    /\ requests' = Append(requests, "candles")
    /\ steps' = Append(steps, "fetch_tradingview_data")
    /\ pc' = "market"
    /\ UNCHANGED <<call, md, news, result, fnVars, pairVars>>

\* the session.get calls of fetch_market_data: line 192 is reached only for crypto
MarketRequestsAlways(market) == <<"market">>
\* a second request to the exchange after the first
MarketRequestsRetried(market) == IF market = "crypto" THEN <<"market", "market">> ELSE <<>>
MarketRequests(market) == IF market = "crypto" THEN <<"market">> ELSE <<>>

\* Step 2, line 297: fetch_market_data
FetchMarket ==
    /\ pc = "market"
    /\ \E c \in MarketCases, rnd \in CallMarketRnds :
        LET r == MarketResponse(c, call.symbol)
        IN  md' = FetchMarketData(call.symbol, call.market, r, rnd)
    /\ requests' = requests \o MarketRequests(call.market)
    /\ steps' = Append(steps, "fetch_market_data")
    /\ pc' = "news"
    /\ UNCHANGED <<call, tv, tvLive, news, result, fnVars, pairVars>>

\* the news fetched only for the modes that print news
FetchNewsStepWhenShown ==
    /\ pc = "news"
    /\ IF call.output_mode = "risk-only"
       THEN /\ news' = <<>>
            /\ UNCHANGED <<requests, steps>>
       ELSE /\ \E c \in NewsCases :
                    news' = FetchNews(call.symbol, call.news_scope, NewsResponse(c))
            /\ requests' = Append(requests, "news")
            /\ steps' = Append(steps, "fetch_news")
    /\ pc' = "format"
    /\ UNCHANGED <<call, tv, tvLive, md, result, fnVars, pairVars>>

\* Step 3, line 300: fetch_news
FetchNewsStep ==
    /\ pc = "news"
    /\ \E c \in NewsCases :
        LET r == NewsResponse(c)
        IN  news' = FetchNews(call.symbol, call.news_scope, r)
    /\ requests' = Append(requests, "news")
    /\ steps' = Append(steps, "fetch_news")
    /\ pc' = "format"
    /\ UNCHANGED <<call, tv, tvLive, md, result, fnVars, pairVars>>

\* Step 4, line 303, and the handler of lines 503-504
Format ==
    /\ pc = "format"
    /\ LET out == FormatOutput(call.symbol, call.market, call.timeframe, tv, md, news,
                               call.output_mode)
       IN  result' = IF IsOk(out) THEN [kind |-> "report", text |-> out.v]
                     ELSE [kind |-> "error", text |-> ErrorString(out.e)]
    /\ steps' = Append(steps, "_format_output")
    /\ pc' = "done"
    /\ UNCHANGED <<call, requests, tv, tvLive, md, news, fnVars, pairVars>>

Next ==
    \/ Analyze
    \/ GetQuickBias
    \/ GetFullPlan
    \/ GetRiskAssessment
    \/ GetNewsBriefing
    \/ FetchCandles
    \/ FetchMarket
    \/ FetchNewsStep
    \/ Format

Spec == Init /\ [][Next]_vars

----------------------------------------------------------------------------
(* The helpers called directly, each on inputs drawn from bounded sets *)

MaxPrice == 2     \* EMA values are 1..MaxPrice, the price 0..MaxPrice + 1
MaxEmaLen == 2    \* an EMA series has at most MaxEmaLen values

PriceVals == {R(x) : x \in 1..MaxPrice}
EmaSeries == UNION {[1..k -> PriceVals] : k \in 0..MaxEmaLen}
\* _analyze_trend is given ema_20, ema_50, ema_200; shorter lists are tried too
EmaLists == UNION {[1..k -> EmaSeries] : k \in 0..3}

\* the scale of the RSI, by halves
RsiVals == {Rat(k, 2) : k \in 0..200}

\* _analyze_trend(current, emas)
CallAnalyzeTrend ==
    /\ fn = "none"
    /\ \E current \in {R(x) : x \in 0..(MaxPrice + 1)}, emas \in EmaLists :
        /\ arg' = [current |-> current, emas |-> emas]
        /\ ret' = Ok(AnalyzeTrend(current, emas))
    /\ fn' = "_analyze_trend"
    /\ UNCHANGED <<flowVars, pairVars>>

\* Snapshots handed to the formatters and scorers directly: the fields K of
\* a snapshot holding typical values or of one holding each field's default.
OptionalKeys == {"current_price", "rsi", "trend", "key_levels", "timezone", "ema_200"}
TypicalSnapshot ==
    MockTradingviewData("ZZZ", "1h",
        [offset |-> 5, volume |-> R(1000000), change |-> R(5), rsi |-> R(65),
         r1 |-> Rat(3, 4), r2 |-> Rat(1, 4)])
DefaultSnapshot ==
    [current_price |-> R(0), rsi |-> R(50), trend |-> "Neutral", key_levels |-> EmptyDict,
     timezone |-> "America/Los_Angeles", ema_200 |-> R(0)]
Injected(base, K) ==
    IF base = "typical" THEN [k \in K |-> TypicalSnapshot[k]] ELSE [k \in K |-> DefaultSnapshot[k]]
Bases == {"typical", "default"}

\* market-data records: none of the fields, the mock's, coingecko's
InjectedMarketData(kind) ==
    CASE kind = "empty" -> EmptyDict
      [] kind = "mock" -> MockMarketData("ZZZ", "crypto",
                            [offset |-> 5, change |-> R(5), volume |-> R(1000000), spread |-> R(2)])
      [] kind = "coingecko" -> [current_price |-> R(100), change_24h |-> R(0),
                                market |-> "crypto", source |-> "coingecko"]
MarketKinds == {"empty", "mock", "coingecko"}

\* news lists: the first k canned headlines, or what fetch_news makes of n results
InjectedNews(kind, k) ==
    IF kind = "mock" THEN Take(MockNews("ZZZ"), k)
    ELSE FetchNews("ZZZ", "symbol-only", NewsResponse(<<"results", "ok", k>>))
NewsKinds == {"mock", "results"}

\* _calc_confidence(tradingview, news)
CallCalcConfidence ==
    /\ fn = "none"
    /\ \E K \in SUBSET {"rsi", "trend"}, rsi \in RsiVals, trend \in TrendLabels, k \in 0..3 :
        LET tradingview == [key \in K |-> IF key = "rsi" THEN rsi ELSE trend]
            items == InjectedNews("mock", k)
        IN  /\ arg' = [tradingview |-> tradingview, news |-> items]
            /\ ret' = Ok(CalcConfidence(tradingview, items))
    /\ fn' = "_calc_confidence"
    /\ UNCHANGED <<flowVars, pairVars>>

\* _format_quick_bias(symbol, market, timeframe, tradingview, news)
CallFormatQuickBias ==
    /\ fn = "none"
    /\ \E base \in Bases, K \in SUBSET OptionalKeys, nk \in NewsKinds, k \in {0, 3} :
        LET tradingview == Injected(base, K)
            items == InjectedNews(nk, k)
        IN  /\ arg' = [tradingview |-> tradingview, news |-> items]
            /\ ret' = FormatQuickBias("ZZZ", "crypto", "1h", tradingview, items)
    /\ fn' = "_format_quick_bias"
    /\ UNCHANGED <<flowVars, pairVars>>

\* _format_risk_only(symbol, tradingview, market_data), also over the whole RSI scale
CallFormatRiskOnly ==
    /\ fn = "none"
    /\ \/ \E base \in Bases, K \in SUBSET OptionalKeys, mk \in MarketKinds :
            LET tradingview == Injected(base, K)
                market_data == InjectedMarketData(mk)
            IN  /\ arg' = [tradingview |-> tradingview, market_data |-> market_data]
                /\ ret' = FormatRiskOnly("ZZZ", tradingview, market_data)
       \/ \E rsi \in RsiVals :
            LET tradingview == [TypicalSnapshot EXCEPT !.rsi = rsi]
                market_data == InjectedMarketData("mock")
            IN  /\ arg' = [tradingview |-> tradingview, market_data |-> market_data]
                /\ ret' = FormatRiskOnly("ZZZ", tradingview, market_data)
    /\ fn' = "_format_risk_only"
    /\ UNCHANGED <<flowVars, pairVars>>

\* _format_news_briefing(symbol, news, market_data)
CallFormatNewsBriefing ==
    /\ fn = "none"
    /\ \E nk \in NewsKinds, k \in 0..3, mk \in MarketKinds :
        LET items == InjectedNews(nk, k)
            market_data == InjectedMarketData(mk)
        IN  /\ arg' = [news |-> items, market_data |-> market_data]
            /\ ret' = FormatNewsBriefing("ZZZ", items, market_data)
    /\ fn' = "_format_news_briefing"
    /\ UNCHANGED <<flowVars, pairVars>>

\* _format_full_plan(symbol, market, timeframe, tradingview, market_data, news)
CallFormatFullPlan ==
    /\ fn = "none"
    /\ \E base \in Bases, K \in SUBSET OptionalKeys, nk \in NewsKinds, k \in {0, 3},
          mk \in MarketKinds :
        LET tradingview == Injected(base, K)
            items == InjectedNews(nk, k)
            market_data == InjectedMarketData(mk)
        IN  /\ arg' = [tradingview |-> tradingview, news |-> items, market_data |-> market_data,
                        now |-> "now", before |-> None]
            /\ ret' = FormatFullPlanAt("now", "ZZZ", "crypto", "1h", tradingview, market_data, items)
    /\ fn' = "_format_full_plan"
    /\ UNCHANGED <<flowVars, pairVars>>

\* _format_full_plan once more on the same snapshot, market data and news
CallFormatFullPlanAgain ==
    /\ fn = "_format_full_plan"
    /\ arg.before = None
    /\ \E now \in Clock \ {arg.now} :
        /\ arg' = [arg EXCEPT !.now = now, !.before = ret]
        /\ ret' = FormatFullPlanAt(now, "ZZZ", "crypto", "1h", arg.tradingview,
                                   arg.market_data, arg.news)
    /\ UNCHANGED <<fn, flowVars, pairVars>>

\* output modes handed to _format_output: the four of the interface and
\* strings that are none of them
DispatchModes == OutputModes \cup {"Quick Bias", "risk only", "news", ""}

\* the 'source' of a snapshot: the key is absent from the live dict literal
\* (lines 59-83) and "mock_data" in the mock (line 121)
SourceTags == {"absent", "mock_data", "live"}
WithSource(snapshot, tag) ==
    IF tag = "absent" THEN [k \in DOMAIN snapshot \ {"source"} |-> snapshot[k]]
    ELSE [k \in DOMAIN snapshot \cup {"source"} |-> IF k = "source" THEN tag ELSE snapshot[k]]
SnapshotKinds == {"live", "synthetic"}
SnapshotOf(kind) ==
    IF kind = "live" THEN LiveSnapshot("ZZZ", "1h", CandleRows("range", 2)).v
    ELSE TypicalSnapshot

\* _format_output(symbol, market, timeframe, tradingview, market_data, news, output_mode)
CallFormatOutput ==
    /\ fn = "none"
    /\ \E output_mode \in DispatchModes, kind \in SnapshotKinds, tag \in SourceTags,
          nk \in NewsKinds, k \in {0, 3}, mk \in MarketKinds :
        LET tradingview == WithSource(SnapshotOf(kind), tag)
            items == InjectedNews(nk, k)
            market_data == InjectedMarketData(mk)
        IN  /\ arg' = [output_mode |-> output_mode, tradingview |-> tradingview,
                        market_data |-> market_data, news |-> items]
            /\ ret' = FormatOutput("ZZZ", "crypto", "1h", tradingview, market_data, items,
                                   output_mode)
    /\ fn' = "_format_output"
    /\ UNCHANGED <<flowVars, pairVars>>

\* fetch_tradingview_data(symbol, timeframe), for each answer of the endpoint
CallFetchTradingviewData ==
    /\ fn = "none"
    /\ \E symbol \in Symbols, c \in CandleCases, rnd \in TradingviewRnds :
        /\ arg' = [symbol |-> symbol, timeframe |-> "1h", case |-> c]
        /\ ret' = Ok(FetchTradingviewData(symbol, "1h", CandleResponse(c), rnd))
    /\ fn' = "fetch_tradingview_data"
    /\ UNCHANGED <<flowVars, pairVars>>

\* fetch_news(symbol, scope), for each answer of the endpoint
CallFetchNews ==
    /\ fn = "none"
    /\ \E symbol \in Symbols, scope \in NewsScopes, c \in NewsCases :
        /\ arg' = [symbol |-> symbol, scope |-> scope, case |-> c]
        /\ ret' = Ok(FetchNews(symbol, scope, NewsResponse(c)))
    /\ fn' = "fetch_news"
    /\ UNCHANGED <<flowVars, pairVars>>

MaxRsiLen == 16      \* price series handed to _calc_rsi have 0..MaxRsiLen samples
MaxSeriesLen == 4    \* price series handed to _calc_ema have 0..MaxSeriesLen samples

\* A price series of n samples that moves by s1 a sample for k samples and by
\* s2 a sample after that.
Ramp(n, start, k, s1, s2) ==
    [i \in 1..n |-> R(start + s1 * Min(i - 1, k) + s2 * (i - 1 - Min(i - 1, k)))]
RampSteps == {-2, -1, 0, 1, 3}
RampTurns == {0, 3, 7}
RampStarts == {0, 100}

\* _calc_rsi(prices)
CallCalcRsi ==
    /\ fn = "none"
    /\ \E n \in 0..MaxRsiLen, start \in RampStarts, k \in RampTurns,
          s1 \in RampSteps, s2 \in RampSteps :
        LET prices == Ramp(n, start, k, s1, s2)
        IN  /\ arg' = [prices |-> prices]
            /\ ret' = Ok(CalcRsi(prices))
    /\ fn' = "_calc_rsi"
    /\ UNCHANGED <<flowVars, pairVars>>

SeriesVals == {R(0), R(1), R(3)}
SeriesPrices == UNION {[1..k -> SeriesVals] : k \in 0..MaxSeriesLen}
Periods == 1..(MaxSeriesLen + 1)

\* _calc_ema(prices, period)
CallCalcEma ==
    /\ fn = "none"
    /\ \E prices \in SeriesPrices, period \in Periods :
        /\ arg' = [prices |-> prices, period |-> period]
        /\ ret' = Ok(CalcEma(prices, period))
    /\ fn' = "_calc_ema"
    /\ UNCHANGED <<flowVars, pairVars>>

NextFn ==
    \/ CallCalcRsi
    \/ CallCalcEma
    \/ CallAnalyzeTrend
    \/ CallCalcConfidence
    \/ CallFormatQuickBias
    \/ CallFormatRiskOnly
    \/ CallFormatNewsBriefing
    \/ CallFormatFullPlan
    \/ CallFormatFullPlanAgain
    \/ CallFormatOutput
    \/ CallFetchTradingviewData
    \/ CallFetchNews

SpecFn == Init /\ [][NextFn]_vars

----------------------------------------------------------------------------
(* Two analyze_market calls at once.  Both go through the one module-level  *)
(* market_intel object (line 496), so they share its fetcher and session,   *)
(* and the mock builders of both draw from the one generator of the random  *)
(* module (lines 94-110, 212-219).  Each call's snapshot, market data, news *)
(* and report are locals of its own frames.                                 *)

\* The numbers random.random() hands out, by position in the generator's
\* stream; random.uniform(a, b) is a + (b - a) * random.random().
UnitStream == <<R(0), Rat(1, 2), Rat(1, 2), R(0), Rat(1, 2), R(0), R(0)>>
Random(k) == UnitStream[(k % Len(UnitStream)) + 1]
Uniform(a, b, k) == RAdd(a, RMul(RSub(b, a), Random(k)))

\* the draws of _mock_tradingview_data with the generator at position k
TradingviewRndAt(k) ==
    [offset |-> Uniform(R(-5), R(5), k).n,
     volume |-> Uniform(R(1000000), R(10000000), k + 1),
     change |-> Uniform(R(-5), R(5), k + 2),
     rsi |-> Uniform(R(30), R(70), k + 3),
     r1 |-> Random(k + 4),
     r2 |-> Random(k + 5)]
\* line 110 draws the second number only when the first is not below 0.5
TradingviewDraws(k) == IF RLt(Random(k + 4), Rat(1, 2)) THEN 5 ELSE 6

\* the draws of _mock_market_data with the generator at position k
MarketRndAt(k) ==
    [offset |-> Uniform(R(-5), R(5), k).n,
     change |-> Uniform(R(-5), R(5), k + 1),
     volume |-> Uniform(R(1000000), R(10000000), k + 2),
     spread |-> Uniform(Rat(1, 10), R(2), k + 3)]
MarketDraws == 4

PairModes == {"quick bias", "risk-only"}
PairCandleCases == {<<"timeout", "-", 0>>, <<"rows", "flat", 1>>}
PairMarketCases == {"timeout", "price"}

\* caller i enters analyze_market
PairAnalyze(i) ==
    /\ pair[i].pc = "idle"
    /\ \E symbol \in CallSymbols, output_mode \in PairModes :
        pair' = [pair EXCEPT ![i].pc = "candles",
                             ![i].call = [symbol |-> symbol, market |-> "crypto",
                                          timeframe |-> "1h", output_mode |-> output_mode,
                                          news_scope |-> "symbol+macro"]]
    /\ UNCHANGED <<rng, flowVars, fnVars>>

\* caller i: fetch_tradingview_data; the fallback draws from the generator
PairFetchCandles(i) ==
    /\ pair[i].pc = "candles"
    /\ \E c \in PairCandleCases :
        LET r == CandleResponse(c)
            live == IsOk(TradingviewTry(pair[i].call.symbol, pair[i].call.timeframe, r))
        IN  /\ pair' = [pair EXCEPT ![i].pc = "market", ![i].candle = c[1],
                            ![i].tv = FetchTradingviewData(pair[i].call.symbol,
                                        pair[i].call.timeframe, r, TradingviewRndAt(rng))]
            /\ rng' = IF live THEN rng ELSE rng + TradingviewDraws(rng)
    /\ UNCHANGED <<flowVars, fnVars>>

\* caller i: fetch_market_data; the fallback draws from the generator
PairFetchMarket(i) ==
    /\ pair[i].pc = "market"
    /\ \E c \in PairMarketCases :
        LET r == MarketResponse(c, pair[i].call.symbol)
            live == IsOk(MarketDataTry(pair[i].call.symbol, pair[i].call.market, r))
        IN  /\ pair' = [pair EXCEPT ![i].pc = "news", ![i].market = c,
                            ![i].md = FetchMarketData(pair[i].call.symbol,
                                        pair[i].call.market, r, MarketRndAt(rng))]
            /\ rng' = IF live THEN rng ELSE rng + MarketDraws
    /\ UNCHANGED <<flowVars, fnVars>>

\* caller i: fetch_news, here with the request timing out
PairFetchNews(i) ==
    /\ pair[i].pc = "news"
    /\ pair' = [pair EXCEPT ![i].pc = "format",
                    ![i].news = FetchNews(pair[i].call.symbol, pair[i].call.news_scope,
                                          Failure("timeout"))]
    /\ UNCHANGED <<rng, flowVars, fnVars>>

\* caller i: _format_output and the return of analyze_market
PairFormat(i) ==
    /\ pair[i].pc = "format"
    /\ LET c == pair[i].call
           out == FormatOutput(c.symbol, c.market, c.timeframe, pair[i].tv, pair[i].md,
                               pair[i].news, c.output_mode)
       IN  pair' = [pair EXCEPT ![i].pc = "done",
                        ![i].result = IF IsOk(out) THEN [kind |-> "report", text |-> out.v]
                                      ELSE [kind |-> "error", text |-> ErrorString(out.e)]]
    /\ UNCHANGED <<rng, flowVars, fnVars>>

NextPair ==
    \E i \in Callers :
        \/ PairAnalyze(i)
        \/ PairFetchCandles(i)
        \/ PairFetchMarket(i)
        \/ PairFetchNews(i)
        \/ PairFormat(i)

SpecPair == Init /\ [][NextPair]_vars

----------------------------------------------------------------------------
(* Properties *)

\* what a report says under a label; NoSeg when the label is not in it
NoSeg == [lbl |-> "none"]
Labelled(text, lbl) ==
    LET I == {i \in DOMAIN text : text[i].lbl = lbl}
    IN  IF I = {} THEN NoSeg ELSE text[CHOOSE i \in I : \A j \in I : i <= j]
Says(text, lbl, val) == \E i \in DOMAIN text : text[i].lbl = lbl /\ text[i].val = val

\* C1: every finished analyze_market call has returned a non-empty string: the
\* report when formatting succeeded, and otherwise, the exception having been
\* caught, a string that opens with the error marker and carries the exception.
C1_AlwaysAString ==
    pc = "done" =>
        LET out == FormatOutput(call.symbol, call.market, call.timeframe, tv, md, news,
                                call.output_mode)
        IN  /\ result.kind \in {"report", "error"}
            /\ result.text # <<>>
            /\ result.kind = "report" <=> IsOk(out)
            /\ result.kind = "report" => result.text = out.v
            /\ result.kind = "error" =>
                    /\ result.text[1] = Lit(ErrorMarker)
                    /\ Says(result.text, "exception", out.e)

\* an exception raised while formatting came back as the error string
C1_Witness == pc = "done" /\ result.kind = "error" /\ result.text[1] = Lit(ErrorMarker)

\* the answers of the candle endpoint that are failures: no connection, no
\* answer in time, an error status, a body that is not a list of full rows
CandleFailure(c) ==
    c[1] \in {"transport_error", "timeout", "http_500", "invalid", "null", "object",
              "empty_list", "short_row", "short_last_row"}

\* the synthetic snapshots, over everything random can hand out
MockSnapshots ==
    {<<symbol, timeframe, MockTradingviewData(symbol, timeframe, rnd)>> :
        symbol \in Symbols, timeframe \in Timeframes, rnd \in TradingviewRnds}

\* C2: when the candle endpoint fails, fetch_tradingview_data raises nothing
\* and returns the synthetic snapshot of the symbol and timeframe.
C2_CandleFailureGivesMock ==
    (fn = "fetch_tradingview_data" /\ CandleFailure(arg.case)) =>
        /\ IsOk(ret)
        /\ <<arg.symbol, arg.timeframe, ret.v>> \in MockSnapshots

\* a candle body too short to index came back as the synthetic snapshot
C2_Witness ==
    /\ fn = "fetch_tradingview_data"
    /\ arg.case[1] = "short_last_row"
    /\ IsOk(ret) /\ ret.v.source = "mock_data"

\* C3: with the candle source failing, a quick-bias analysis returns a
\* non-empty string that contains the symbol and a trend label.
C3_QuickBiasOnCandleFailure ==
    (pc = "done" /\ ~tvLive /\ call.output_mode = "quick bias") =>
        /\ result.text # <<>>
        /\ Says(result.text, "symbol", call.symbol)
        /\ Labelled(result.text, "Bias") # NoSeg
        /\ Labelled(result.text, "Bias").val \in TrendLabels

\* the steps of a call that are among the named ones, in the order taken
Among(names) == SelectSeq(steps, LAMBDA x : x \in names)

\* C4 in the specification's wording: the snapshot is built, then the news
\* retrieved, then the report formatted, and the call makes exactly two
\* requests, the candle fetch and then the news fetch.
C4_TwoRequests ==
    pc = "done" =>
        /\ Among({"fetch_tradingview_data", "fetch_news", "_format_output"})
                = <<"fetch_tradingview_data", "fetch_news", "_format_output">>
        /\ requests = <<"candles", "news">>

\* C4: a finished call has built the snapshot, then retrieved the news, then
\* formatted, with the market-data step between snapshot and news; its
\* requests are the candle fetch, then the market-data fetch when the market
\* is crypto and only then, then the news fetch, each once and no other.
C4_StepsAndRequests ==
    /\ pc = "done" =>
        /\ Among({"fetch_tradingview_data", "fetch_news", "_format_output"})
                = <<"fetch_tradingview_data", "fetch_news", "_format_output">>
        /\ steps = <<"fetch_tradingview_data", "fetch_market_data", "fetch_news",
                     "_format_output">>
        /\ requests = IF call.market = "crypto" THEN <<"candles", "market", "news">>
                      ELSE <<"candles", "news">>
    /\ pc \in {"market", "news"} => requests[1] = "candles"
    /\ pc \in {"idle", "candles", "market", "news"} =>
            "news" \notin {requests[i] : i \in DOMAIN requests}

\* a finished crypto call with its three requests
C4_Witness ==
    pc = "done" /\ call.market = "crypto" /\ requests = <<"candles", "market", "news">>

\* the answers of the news endpoint that are failures: no connection, no
\* answer in time, a body that is not JSON or not an object, results that are
\* not a list of items, items that are not objects with an object source
NewsFailure(c) ==
    \/ c[1] \in {"transport_error", "timeout", "invalid", "null", "list",
                 "results_null", "results_string", "results_object"}
    \/ c[1] = "results" /\ c[2] \in {"string", "source_string"} /\ c[3] > 0

\* C5: when the news endpoint fails, fetch_news raises nothing and returns the
\* canned headlines of the symbol, which are not empty, whatever the scope.
C5_NewsFailureGivesMock ==
    (fn = "fetch_news" /\ NewsFailure(arg.case)) =>
        /\ IsOk(ret)
        /\ ret.v = MockNews(arg.symbol)
        /\ ret.v # <<>>

\* a failure under the scope that has no fallback for empty results
C5_Witness ==
    /\ fn = "fetch_news" /\ arg.scope = "symbol-only" /\ arg.case[1] = "timeout"
    /\ IsOk(ret) /\ Len(ret.v) = 3

\* C6: every snapshot fetch_tradingview_data returns has a source tag, which
\* is "live" when the candle fetch succeeded and "synthetic" when it fell back.
C6_SourceTag ==
    fn = "fetch_tradingview_data" =>
        /\ IsOk(ret)
        /\ "source" \in DOMAIN ret.v
        /\ ret.v.source \in {"live", "synthetic"}
        /\ ret.v.source = "live" <=> ~CandleFailure(arg.case)

\* the four formatters
Formatters == {"_format_quick_bias", "_format_risk_only", "_format_news_briefing",
               "_format_full_plan"}

\* C7: a formatter given a snapshot with fields missing or at their defaults,
\* or a market-data record with fields missing, returns a non-empty string.
C7_FormattersTotal ==
    fn \in Formatters => IsOk(ret) /\ ret.v # <<>>

\* the RSI a risk report was made for
RsiOf(tradingview) == Get(tradingview, "rsi", R(50))

\* C8 as written: Low on the closed band 40..60, High at 30 and below and at
\* 70 and above, Medium between.
C8_ClosedBands ==
    (fn = "_format_risk_only" /\ IsOk(ret)) =>
        LET rsi == RsiOf(arg.tradingview)
        IN  Says(ret.v, "Risk Level",
                 IF RLe(R(40), rsi) /\ RLe(rsi, R(60)) THEN "Low"
                 ELSE IF RLe(rsi, R(30)) \/ RLe(R(70), rsi) THEN "High"
                 ELSE "Medium")

\* C8: the risk level of a risk report is Low when the RSI is strictly between
\* 40 and 60, High when it is below 30 or above 70, and Medium otherwise, so
\* also at 30, 40, 60 and 70; every RSI gets exactly one of the three.
C8_OpenBands ==
    (fn = "_format_risk_only" /\ IsOk(ret)) =>
        LET rsi == RsiOf(arg.tradingview)
            level == Labelled(ret.v, "Risk Level")
        IN  /\ level # NoSeg
            /\ level.val \in {"Low", "Medium", "High"}
            /\ level.val = "Low" <=> (RLt(R(40), rsi) /\ RLt(rsi, R(60)))
            /\ level.val = "High" <=> (RLt(rsi, R(30)) \/ RLt(R(70), rsi))

\* a report for an RSI on the edge of a band
C8_Witness ==
    /\ fn = "_format_risk_only" /\ IsOk(ret)
    /\ RsiOf(arg.tradingview) \in {R(30), R(40), R(60), R(70)}
    /\ Says(ret.v, "Risk Level", "Medium")

\* the latest value of every EMA series that has one
Latest(emas) == {emas[i][Len(emas[i])] : i \in {j \in DOMAIN emas : Len(emas[j]) > 0}}

\* C9: _analyze_trend answers Bullish when the price is strictly above the
\* latest value of every non-empty EMA series, Bearish when strictly below
\* every one, and Neutral otherwise, also when no series has a value.
C9_Trend ==
    fn = "_analyze_trend" =>
        LET L == Latest(arg.emas)
        IN  /\ IsOk(ret)
            /\ ret.v = IF L = {} THEN "Neutral"
                       ELSE IF \A v \in L : RLt(v, arg.current) THEN "Bullish"
                       ELSE IF \A v \in L : RLt(arg.current, v) THEN "Bearish"
                       ELSE "Neutral"

\* a price level with one EMA and above the others
C9_Witness ==
    /\ fn = "_analyze_trend"
    /\ arg.current \in Latest(arg.emas)
    /\ \E v \in Latest(arg.emas) : RLt(v, arg.current)
    /\ \A v \in Latest(arg.emas) : RLe(v, arg.current)
    /\ ret.v = "Neutral"

\* the points of a confidence score that the inputs earn
Earned(tradingview, items) ==
    {p \in {"trend", "rsi", "news"} :
        \/ p = "trend" /\ Get(tradingview, "trend", "Neutral") # "Neutral"
        \/ p = "rsi" /\ RLt(R(40), RsiOf(tradingview)) /\ RLt(RsiOf(tradingview), R(60))
        \/ p = "news" /\ items # <<>>}

\* C10: _calc_confidence gives one point for a trend that is not Neutral, one
\* for an RSI strictly between 40 and 60 and one for a news item; three points
\* are High, two are Medium, fewer are Low.
C10_Confidence ==
    fn = "_calc_confidence" =>
        LET points == Cardinality(Earned(arg.tradingview, arg.news))
        IN  /\ IsOk(ret)
            /\ ret.v = CASE points = 3 -> "High"
                         [] points = 2 -> "Medium"
                         [] OTHER -> "Low"

\* an RSI on the edge of the band costs the third point
C10_Witness ==
    /\ fn = "_calc_confidence"
    /\ RsiOf(arg.tradingview) \in {R(40), R(60)}
    /\ Get(arg.tradingview, "trend", "Neutral") = "Bullish"
    /\ arg.news # <<>>
    /\ ret.v = "Medium"

\* a = b for numbers
REq(a, b) == a.n * b.d = b.n * a.d
Rising(prices) == \A i \in 1..(Len(prices) - 1) : RLt(prices[i], prices[i + 1])
Falling(prices) == \A i \in 1..(Len(prices) - 1) : RLt(prices[i + 1], prices[i])
NeverFalling(prices) == \A i \in 1..(Len(prices) - 1) : RLe(prices[i], prices[i + 1])

\* C11: _calc_rsi returns exactly 50 for every series of fewer than 14
\* prices, the empty one included, whatever the prices are.
C11_ShortSeriesNeutral ==
    (fn = "_calc_rsi" /\ Len(arg.prices) < 14) => (IsOk(ret) /\ ret.v = R(50))

\* thirteen rising prices, still answered with 50
C11_Witness ==
    /\ fn = "_calc_rsi" /\ Len(arg.prices) = 13 /\ Rising(arg.prices)
    /\ ret.v = R(50)

\* C12: for a series of 14 prices or more, _calc_rsi returns at least 50 when
\* the series rises strictly, at most 50 when it falls strictly, and exactly
\* 100 when no price is below the one before it (so that the average loss is
\* 0), a flat series included; it divides by zero nowhere.
C12_Monotone ==
    (fn = "_calc_rsi" /\ Len(arg.prices) >= 14) =>
        /\ IsOk(ret)
        /\ Rising(arg.prices) => RLe(R(50), ret.v)
        /\ Falling(arg.prices) => RLe(ret.v, R(50))
        /\ NeverFalling(arg.prices) => REq(ret.v, R(100))

\* a flat series of 14 prices or more, answered with 100
C12_Witness ==
    /\ fn = "_calc_rsi" /\ Len(arg.prices) >= 14
    /\ \A i \in DOMAIN arg.prices : arg.prices[i] = arg.prices[1]
    /\ REq(ret.v, R(100))

\* C13: _calc_ema returns the empty list exactly when there are fewer prices
\* than the period; otherwise the list has len(prices) - period + 1 values and
\* the first is the mean of the first period prices.
C13_EmaShape ==
    fn = "_calc_ema" =>
        /\ IsOk(ret)
        /\ ret.v = <<>> <=> Len(arg.prices) < arg.period
        /\ Len(arg.prices) >= arg.period =>
            /\ Len(ret.v) = Len(arg.prices) - arg.period + 1
            /\ REq(RMul(ret.v[1], R(arg.period)), RSum(SubSeq(arg.prices, 1, arg.period)))

\* as many prices as the period: one value, their mean
C13_Witness ==
    /\ fn = "_calc_ema"
    /\ Len(arg.prices) = arg.period /\ arg.period > 1
    /\ Len(ret.v) = 1 /\ ~REq(ret.v[1], arg.prices[1])

\* the snapshot returned came from the candles, not from the fallback
LiveReturned ==
    /\ fn = "fetch_tradingview_data"
    /\ IsOk(TradingviewTry(arg.symbol, arg.timeframe, CandleResponse(arg.case)))

\* the levels of a snapshot follow the level formula on its own prices
ByLevelFormula(snapshot) ==
    LET current == snapshot.current_price
        high == snapshot.high_24h
        low == snapshot.low_24h
        levels == snapshot.key_levels
    IN  /\ DOMAIN levels = {"pivot", "s1", "s2", "r1", "r2"}
        /\ REq(RMul(levels.pivot, R(3)), RAdd(RAdd(high, low), current))
        /\ REq(RAdd(levels.s1, high), RMul(R(2), current))
        /\ REq(RAdd(levels.s2, RSub(high, low)), current)
        /\ REq(RAdd(levels.r1, low), RMul(R(2), current))
        /\ REq(levels.r2, RAdd(current, RSub(high, low)))

\* C14: in a live snapshot pivot = (high + low + current) / 3, s1 = 2 current
\* - high, s2 = current - (high - low), r1 = 2 current - low and r2 = current
\* + (high - low), also when high = low; current 100, high 110, low 90 give
\* pivot 100, s1 90, s2 80, r1 110, r2 120.
C14_LiveLevels ==
    LiveReturned =>
        /\ IsOk(ret)
        /\ ByLevelFormula(ret.v)
        /\ (ret.v.current_price = R(100) /\ ret.v.high_24h = R(110) /\ ret.v.low_24h = R(90))
            => ret.v.key_levels = [pivot |-> R(100), s1 |-> R(90), s2 |-> R(80),
                                   r1 |-> R(110), r2 |-> R(120)]

\* the live snapshot of candles that close at 100 between 90 and 110
C14_Witness ==
    /\ LiveReturned
    /\ ret.v.current_price = R(100) /\ ret.v.high_24h = R(110) /\ ret.v.low_24h = R(90)
    /\ ret.v.key_levels.s2 = R(80) /\ ret.v.key_levels.r2 = R(120)

\* C15 in the specification's wording: in every snapshot returned, live or
\* synthetic, the levels follow the level formula on that snapshot's own
\* high, low and current price.
C15_AllByFormula ==
    fn = "fetch_tradingview_data" => (IsOk(ret) /\ ByLevelFormula(ret.v))

\* C15: in every snapshot returned the levels are a fixed function of that
\* snapshot's prices: in a live one the level formula on its high, low and
\* current price; in a synthetic one pivot = current, s1 = 95%, s2 = 90%,
\* r1 = 105% and r2 = 110% of the current price.
C15_LevelsBySource ==
    fn = "fetch_tradingview_data" =>
        /\ IsOk(ret)
        /\ LiveReturned => ByLevelFormula(ret.v)
        /\ ~LiveReturned =>
            LET current == ret.v.current_price
                levels == ret.v.key_levels
            IN  /\ DOMAIN levels = {"pivot", "s1", "s2", "r1", "r2"}
                /\ REq(levels.pivot, current)
                /\ REq(RMul(levels.s1, R(100)), RMul(current, R(95)))
                /\ REq(RMul(levels.s2, R(100)), RMul(current, R(90)))
                /\ REq(RMul(levels.r1, R(100)), RMul(current, R(105)))
                /\ REq(RMul(levels.r2, R(100)), RMul(current, R(110)))

\* a synthetic snapshot whose levels are not those of the level formula
C15_Witness ==
    /\ fn = "fetch_tradingview_data" /\ ~LiveReturned
    /\ REq(ret.v.key_levels.pivot, ret.v.current_price)
    /\ ~ByLevelFormula(ret.v)

\* what analyze_market returns for these arguments and these fetched data
Returned(symbol, market, timeframe, output_mode, snapshot, market_data, items) ==
    LET out == FormatOutput(symbol, market, timeframe, snapshot, market_data, items, output_mode)
    IN  IF IsOk(out) THEN [kind |-> "report", text |-> out.v]
        ELSE [kind |-> "error", text |-> <<Lit(ErrorMarker), Seg("exception", out.e)>>]

\* C16: a finished shorthand call has gone through the steps of analyze_market
\* and returned what analyze_market returns for the market crypto, the
\* timeframe given or defaulted, and the shorthand's mode and scope: quick bias
\* and symbol-only, full trade plan and symbol+macro, risk-only and symbol-only,
\* news briefing and symbol+macro at 1h; an exception comes back as the error
\* string there too.
C16_Shorthands ==
    (pc = "done" /\ call.entry # "analyze_market") =>
        LET mode == CASE call.entry = "get_quick_bias" -> "quick bias"
                      [] call.entry = "get_full_plan" -> "full trade plan"
                      [] call.entry = "get_risk_assessment" -> "risk-only"
                      [] call.entry = "get_news_briefing" -> "news briefing"
            scope == CASE call.entry = "get_quick_bias" -> "symbol-only"
                       [] call.entry = "get_full_plan" -> "symbol+macro"
                       [] call.entry = "get_risk_assessment" -> "symbol-only"
                       [] call.entry = "get_news_briefing" -> "symbol+macro"
        IN  /\ call.market = "crypto" /\ call.output_mode = mode /\ call.news_scope = scope
            /\ call.entry = "get_news_briefing" => call.timeframe = "1h"
            /\ steps = <<"fetch_tradingview_data", "fetch_market_data", "fetch_news",
                         "_format_output">>
            /\ result = Returned(call.symbol, "crypto", call.timeframe, mode, tv, md, news)

\* a risk assessment whose exception came back as the error string
C16_Witness ==
    /\ pc = "done" /\ call.entry = "get_risk_assessment"
    /\ call.news_scope = "symbol-only"
    /\ result.kind = "error"

\* what the call of caller i returns when it runs alone, from the same
\* generator position as the pair started from and against the same answers
Alone(i) ==
    LET c == pair[i].call
        candles == IF pair[i].candle = "rows" THEN <<"rows", "flat", 1>>
                   ELSE <<pair[i].candle, "-", 0>>
        r1 == CandleResponse(candles)
        live == IsOk(TradingviewTry(c.symbol, c.timeframe, r1))
        snapshot == FetchTradingviewData(c.symbol, c.timeframe, r1, TradingviewRndAt(0))
        k == IF live THEN 0 ELSE TradingviewDraws(0)
        market_data == FetchMarketData(c.symbol, c.market,
                                       MarketResponse(pair[i].market, c.symbol), MarketRndAt(k))
        items == FetchNews(c.symbol, c.news_scope, Failure("timeout"))
    IN  Returned(c.symbol, c.market, c.timeframe, c.output_mode, snapshot, market_data, items)

\* C17: two analyze_market calls at once do not touch one another: whatever
\* the interleaving of their steps, each returns what it returns when it runs
\* alone against the same answers of the endpoints.
C17_Independent ==
    \A i \in Callers : pair[i].pc = "done" => pair[i].result = Alone(i)

\* the labels of a report in the order of its text, a literal standing for itself
Structure(text) ==
    [i \in DOMAIN text |-> IF text[i].lbl = "text" THEN text[i].val ELSE text[i].lbl]
\* the pieces of a report that are among the given ones, in the order of the text
Only(text, wanted) == SelectSeq(Structure(text), LAMBDA x : x \in wanted)
Numbered == {"1) SNAPSHOT (NOW)", "2) TECHNICAL READ", "3) NEWS & CATALYST MAP",
             "4) TRADE SCENARIOS", "5) RISK NOTES"}

\* C18: every full trade plan has the five section headers, snapshot,
\* technical read, news and catalyst map, trade scenarios and risk notes, once
\* each and in that order; rendered again from the same snapshot, market data
\* and news it has the same headers and the same labelled fields in the same
\* places, and raises again if it raised before.
C18_StablePlan ==
    fn = "_format_full_plan" =>
        /\ IsOk(ret) =>
            Only(ret.v, Numbered) =
                <<"1) SNAPSHOT (NOW)", "2) TECHNICAL READ", "3) NEWS & CATALYST MAP",
                  "4) TRADE SCENARIOS", "5) RISK NOTES">>
        /\ arg.before # None =>
            /\ IsOk(ret) <=> IsOk(arg.before)
            /\ IsOk(ret) => Structure(ret.v) = Structure(arg.before.v)
            /\ ~IsOk(ret) => ret = arg.before

\* a plan rendered twice at different times of the clock
C18_Witness ==
    /\ fn = "_format_full_plan" /\ arg.before # None
    /\ IsOk(ret) /\ IsOk(arg.before)
    /\ ret.v # arg.before.v
    /\ Len(arg.news) = 3

\* how many pieces of a report carry the label
Count(text, lbl) == Cardinality({i \in DOMAIN text : text[i].lbl = lbl})

\* C19: the news list of a call never has more than 5 items, and a report
\* shows no more headlines than there are and no more than its cap: 1 in a
\* quick bias, 5 in a news briefing, 3 in a full trade plan.
C19_NewsCaps ==
    /\ Len(news) <= 5
    /\ (pc = "done" /\ result.kind = "report") =>
        LET shown == IF call.output_mode = "quick bias" THEN Count(result.text, "Latest")
                     ELSE Count(result.text, "headline")
            cap == CASE call.output_mode = "quick bias" -> 1
                     [] call.output_mode = "news briefing" -> 5
                     [] call.output_mode = "risk-only" -> 0
                     [] OTHER -> 3
        IN  shown <= cap /\ shown <= Len(news)

\* a full trade plan made from five news items shows three
C19_Witness ==
    /\ pc = "done" /\ result.kind = "report" /\ call.output_mode = "full trade plan"
    /\ Len(news) = 5
    /\ Count(result.text, "headline") = 3

\* 0 <= x <= 100
InScale(x) == RLe(R(0), x) /\ RLe(x, R(100))

\* C20: the rsi of every snapshot fetch_tradingview_data returns, from the
\* candles or from the fallback, lies between 0 and 100, both included; so
\* does every value _calc_rsi computes from a price series.
C20_RsiInScale ==
    /\ fn = "fetch_tradingview_data" => (IsOk(ret) /\ InScale(ret.v.rsi))
    /\ fn = "_calc_rsi" => (IsOk(ret) /\ InScale(ret.v))

\* a snapshot from candles with gains and losses, its rsi inside the scale
C20_Witness ==
    /\ LiveReturned
    /\ RLt(R(50), ret.v.rsi) /\ RLt(ret.v.rsi, R(100))

\* how many of the requests of the call went to an endpoint
Requested(endpoint) == Cardinality({i \in DOMAIN requests : requests[i] = endpoint})

\* C21: within one analyze call each external endpoint is requested at most
\* once, and once the candle step is over after a failed request the snapshot
\* is the fallback one, with still a single request to the candle endpoint.
C21_NoRetries ==
    /\ \A endpoint \in {"candles", "market", "news"} : Requested(endpoint) <= 1
    /\ Len(requests) <= 3
    /\ (pc \in {"market", "news", "format", "done"} /\ ~tvLive) =>
            /\ "source" \in DOMAIN tv /\ tv.source = "mock_data"
            /\ Requested("candles") = 1

C21_Witness ==
    /\ pc = "done"
    /\ ~tvLive
    /\ tv.source = "mock_data"
    /\ requests = <<"candles", "market", "news">>

\* the synthetic snapshot came back from fetch_tradingview_data
SyntheticReturned ==
    /\ fn = "fetch_tradingview_data"
    /\ ~IsOk(TradingviewTry(arg.symbol, arg.timeframe, CandleResponse(arg.case)))

\* the base the symbol anchors a synthetic price to
AnchorOf(symbol) ==
    CASE symbol = "BTCUSD" -> R(50000)
      [] symbol = "ethusdt" -> R(2000)
      [] OTHER -> R(100)

Within(x, lo, hi) == RLe(lo, x) /\ RLe(x, hi)

SnapshotKeys ==
    {"symbol", "timeframe", "current_price", "open_24h", "high_24h", "low_24h",
     "volume_24h", "change_24h", "rsi", "ema_20", "ema_50", "ema_200", "trend",
     "key_levels", "last_50_candles", "timestamp", "timezone"}

\* C22: every synthetic snapshot has all the fields of a snapshot, a current
\* price within 5% of the base of its symbol, a 24h change in [-5, 5], an rsi
\* in [30, 70] and a trend that is Bullish, Bearish or Neutral.
C22_SyntheticBounded ==
    SyntheticReturned =>
        LET s == ret.v
            base == AnchorOf(arg.symbol)
        IN  /\ SnapshotKeys \subseteq DOMAIN s
            /\ DOMAIN s.key_levels = {"pivot", "s1", "s2", "r1", "r2"}
            /\ Within(s.current_price, Pct(base, 95), Pct(base, 105))
            /\ Within(s.change_24h, R(-5), R(5))
            /\ Within(s.rsi, R(30), R(70))
            /\ Within(s.volume_24h, R(1000000), R(10000000))
            /\ s.trend \in {"Bullish", "Bearish", "Neutral"}

\* the mid base, at the top of its price band and of the rsi range
C22_Witness ==
    /\ SyntheticReturned
    /\ arg.symbol = "ethusdt"
    /\ ret.v.current_price = R(2100)
    /\ ret.v.rsi = R(70)
    /\ ret.v.change_24h = R(-5)
    /\ ret.v.trend = "Bearish"

\* the narrative the claim gives an RSI
Narrative(rsi) ==
    IF RGt(rsi, R(80)) \/ RLt(rsi, R(20)) THEN "Overbought/Oversold - reversal risk"
    ELSE IF RGt(rsi, R(70)) \/ RLt(rsi, R(30)) THEN "Extended - caution"
    ELSE "Normal trading conditions"

\* some piece of the text that holds no number reads as the words
Reads(text, words) ==
    \E i \in DOMAIN text :
        /\ text[i].lbl \notin {"Volatility (ATR)", "Volume (24h)", "Spread", "Support",
                               "Resistance"}
        /\ text[i].val = words

\* C23: a risk report carries the risk level and also the risk narrative of
\* its RSI: reversal risk above 80 or below 20, caution above 70 or below 30,
\* normal otherwise.
C23_RiskOnlyNarrative ==
    (fn = "_format_risk_only" /\ IsOk(ret)) =>
        /\ Labelled(ret.v, "Risk Level") # NoSeg
        /\ Reads(ret.v, Narrative(RsiOf(arg.tradingview)))

\* the last close is the high of the window, above its low
ClosedAtHigh(snapshot) ==
    /\ REq(snapshot.current_price, snapshot.high_24h)
    /\ RLt(snapshot.low_24h, snapshot.high_24h)

\* C24: the levels are not ordered by construction: in a live snapshot whose
\* current price is the 24h high, above the 24h low, support1 lies above the
\* pivot, and it is still 2 current - high: nothing reorders or clamps it.
C24_LevelsNotReordered ==
    (LiveReturned /\ IsOk(ret) /\ ClosedAtHigh(ret.v)) =>
        LET levels == ret.v.key_levels
        IN  /\ RLe(ret.v.low_24h, ret.v.current_price)
            /\ RGt(levels.s1, levels.pivot)
            /\ REq(RAdd(levels.s1, ret.v.high_24h), RMul(R(2), ret.v.current_price))
            /\ REq(RMul(levels.pivot, R(3)),
                   RAdd(RAdd(ret.v.high_24h, ret.v.low_24h), ret.v.current_price))

\* candles closing at 3, the high, with a low of 1: s1 = 3 above pivot = 7/3
C24_Witness ==
    /\ LiveReturned /\ IsOk(ret) /\ ClosedAtHigh(ret.v)
    /\ ret.v.current_price = R(3) /\ ret.v.low_24h = R(1)
    /\ ret.v.key_levels.s1 = R(3)
    /\ ret.v.key_levels.pivot = Rat(7, 3)

\* the report _format_output gives the arguments of the call when the
\* snapshot's source is set to tag and nothing else changes
Retagged(tag) ==
    FormatOutput("ZZZ", "crypto", "1h", WithSource(arg.tradingview, tag), arg.market_data,
                 arg.news, arg.output_mode)

\* C25: in every output mode the report of a snapshot is the report of the
\* same snapshot with its source removed or set to another tag, for the same
\* news and market data; no piece of the text is the source.
C25_SourceNotRendered ==
    fn = "_format_output" =>
        /\ \A tag \in SourceTags : Retagged(tag) = ret
        /\ IsOk(ret) => \A i \in DOMAIN ret.v : ret.v[i].lbl # "Source"

\* a full plan of a synthetic snapshot that reads as the one of the same
\* snapshot without the tag
C25_Witness ==
    /\ fn = "_format_output" /\ IsOk(ret)
    /\ arg.output_mode = "full trade plan"
    /\ "source" \in DOMAIN arg.tradingview /\ arg.tradingview.source = "mock_data"
    /\ Retagged("absent") = ret
    /\ Retagged("live") = ret

FetchSteps == <<"fetch_tradingview_data", "fetch_market_data", "fetch_news">>
Logged(endpoint) == \E i \in DOMAIN requests : requests[i] = endpoint

\* C26: whenever a call is at its formatting step or past it, the three
\* fetch steps have run, in order and before _format_output, in every output
\* mode and also after a failed candle fetch; the risk-only mode has asked
\* for the news and the news briefing for the candles.
C26_FetchBeforeFormat ==
    /\ pc \in {"format", "done"} =>
        /\ Len(steps) >= 3
        /\ SubSeq(steps, 1, 3) = FetchSteps
        /\ Logged("candles") /\ Logged("news")
        /\ md # None /\ tv # None
    /\ \A i \in DOMAIN steps : steps[i] = "_format_output" => i = 4
    /\ (pc \in {"news", "format", "done"} /\ ~tvLive) =>
            Len(steps) >= 2 /\ steps[2] = "fetch_market_data"

\* a risk report made after the candle fetch failed: all three fetches ran
C26_Witness ==
    /\ pc = "done"
    /\ ~tvLive
    /\ call.output_mode = "risk-only"
    /\ steps = <<"fetch_tradingview_data", "fetch_market_data", "fetch_news", "_format_output">>
    /\ Logged("news")

\* the answers of the news endpoint that are read without an error and hold
\* no result: an empty results list, no results at all, an empty results string
ZeroResults(c) ==
    \/ c[1] \in {"empty_object", "results_empty_string"}
    \/ c[1] = "results" /\ c[3] = 0

ScopeOf(name) == Shorthand(name, "ZZZ", "1h").news_scope

\* C27: fetch_news returns the empty list exactly when the endpoint answered
\* with zero results and the scope is not "symbol+macro"; under "symbol+macro"
\* a zero-result answer gives the canned headlines.  So under the scope of
\* get_quick_bias and get_risk_assessment a zero-result answer gives the empty
\* list, and under the scope of get_full_plan and get_news_briefing the list
\* is never empty.
C27_EmptyNews ==
    fn = "fetch_news" =>
        /\ IsOk(ret)
        /\ ret.v = <<>> <=> (ZeroResults(arg.case) /\ arg.scope # "symbol+macro")
        /\ (ZeroResults(arg.case) /\ arg.scope = "symbol+macro") => ret.v = MockNews(arg.symbol)
        /\ \A name \in {"get_quick_bias", "get_risk_assessment"} :
                (arg.scope = ScopeOf(name) /\ ZeroResults(arg.case)) => ret.v = <<>>
        /\ \A name \in {"get_full_plan", "get_news_briefing"} :
                arg.scope = ScopeOf(name) => ret.v # <<>>
        /\ arg.scope \in {ScopeOf(name) : name \in {"get_quick_bias", "get_risk_assessment",
                                                     "get_full_plan", "get_news_briefing"}}

\* no results under the scope of the quick bias: the empty list
C27_Witness ==
    /\ fn = "fetch_news"
    /\ arg.case = <<"results", "ok", 0>>
    /\ arg.scope = ScopeOf("get_quick_bias")
    /\ arg.scope = "symbol-only"
    /\ ret.v = <<>>

\* the EMAs a snapshot reports, one reported as 0 counting as absent
ReportedEmas(snapshot) ==
    {v \in {snapshot.ema_20, snapshot.ema_50, snapshot.ema_200} : ~RIsZero(v)}

\* the classification of the snapshot's price against the EMAs it reports
Classified(snapshot) ==
    LET L == ReportedEmas(snapshot)
    IN  IF L = {} THEN "Neutral"
        ELSE IF \A v \in L : RLt(v, snapshot.current_price) THEN "Bullish"
        ELSE IF \A v \in L : RLt(snapshot.current_price, v) THEN "Bearish"
        ELSE "Neutral"

\* C28 as written: in every snapshot returned, live or synthetic, the trend
\* is the classification of current_price against the reported EMAs.
C28_TrendAgrees ==
    fn = "fetch_tradingview_data" => ret.v.trend = Classified(ret.v)

\* C28: in every live snapshot the trend is the classification of
\* current_price against the EMAs the snapshot reports, a 0 counting as
\* absent.  A synthetic snapshot reports three EMAs below its price, so that
\* the classification is Bullish, and carries one of the three labels
\* whatever the classification.
C28_TrendBySource ==
    fn = "fetch_tradingview_data" =>
        /\ ret.v.trend \in TrendLabels
        /\ LiveReturned => ret.v.trend = Classified(ret.v)
        /\ SyntheticReturned =>
            /\ Cardinality(ReportedEmas(ret.v)) = 3
            /\ Classified(ret.v) = "Bullish"

\* a synthetic snapshot labelled Bearish with its price above its three EMAs
C28_Witness ==
    /\ SyntheticReturned
    /\ ret.v.trend = "Bearish"
    /\ \A v \in ReportedEmas(ret.v) : RLt(v, ret.v.current_price)
    /\ Classified(ret.v) = "Bullish"

\* the open of candle i (from 1) of the series the endpoint answered with
OpenAt(c, i) == R(Candle(c[2], c[3], i)[2])

\* change_24h is the change of current_price against open_24h, in percent
ChangeFromOpen(snapshot) ==
    /\ REq(RMul(snapshot.change_24h, snapshot.open_24h),
           RMul(RSub(snapshot.current_price, snapshot.open_24h), R(100)))

\* C29 as written: in every live snapshot change_24h = (current_price -
\* open_24h) / open_24h * 100, for series of at least 24 candles and for
\* shorter ones.
C29_ChangeFromOpen ==
    (LiveReturned /\ IsOk(ret) /\ ~RIsZero(ret.v.open_24h)) => ChangeFromOpen(ret.v)

\* C29: in a live snapshot of at least 24 candles open_24h is the open 24
\* candles back and change_24h = (current_price - open_24h) / open_24h * 100;
\* in a live snapshot of fewer candles open_24h is the first open of the
\* series and change_24h is 0, whatever the prices.
C29_ChangeByLength ==
    (LiveReturned /\ IsOk(ret)) =>
        LET n == arg.case[3]
        IN  IF n >= 24
            THEN /\ ret.v.open_24h = OpenAt(arg.case, n - 23)
                 /\ ~RIsZero(ret.v.open_24h)
                 /\ ChangeFromOpen(ret.v)
            ELSE /\ ret.v.open_24h = OpenAt(arg.case, 1)
                 /\ RIsZero(ret.v.change_24h)

\* 25 rising candles: the open 24 back is the second, and the change is
\* against it ...
C29_WitnessLong ==
    /\ LiveReturned /\ IsOk(ret)
    /\ arg.case = <<"rows", "up", 25>>
    /\ ret.v.open_24h = R(2) /\ ret.v.current_price = R(26)
    /\ ret.v.change_24h = R(1200)

\* ... and a short rising series: a price above the reported open, change 0
C29_Witness ==
    /\ LiveReturned /\ IsOk(ret)
    /\ arg.case[3] < 24
    /\ RGt(ret.v.current_price, ret.v.open_24h)
    /\ RGt(ret.v.open_24h, R(0))
    /\ RIsZero(ret.v.change_24h)

\* the report of each formatter for the arguments of the call
OwnReport(output_mode) ==
    CASE output_mode = "quick bias" ->
            FormatQuickBias("ZZZ", "crypto", "1h", arg.tradingview, arg.news)
      [] output_mode = "risk-only" -> FormatRiskOnly("ZZZ", arg.tradingview, arg.market_data)
      [] output_mode = "news briefing" -> FormatNewsBriefing("ZZZ", arg.news, arg.market_data)
      [] OTHER -> FormatFullPlan("ZZZ", "crypto", "1h", arg.tradingview, arg.market_data,
                                 arg.news)

OwnModes == {"quick bias", "risk-only", "news briefing"}

\* C30: _format_output answers "quick bias", "risk-only" and "news briefing"
\* with the report of their own formatter, and every other mode string, also
\* one that is no mode or a misspelled one, with the full trade plan of the
\* same arguments, which is a report and no error; a mode that is not one of
\* the three never gets the report of one of their formatters.
C30_DispatchTotal ==
    fn = "_format_output" =>
        /\ arg.output_mode \in OwnModes => ret = OwnReport(arg.output_mode)
        /\ arg.output_mode \notin OwnModes =>
            /\ ret = OwnReport("full trade plan")
            /\ IsOk(ret)
            /\ Labelled(ret.v, "Confidence") # NoSeg
            /\ \A own \in OwnModes : ret # OwnReport(own)

\* a mode written with capitals gets the full trade plan
C30_Witness ==
    /\ fn = "_format_output"
    /\ arg.output_mode = "Quick Bias"
    /\ IsOk(ret)
    /\ ret = OwnReport("full trade plan")
    /\ ret # OwnReport("quick bias")

====
